---- MODULE Spec2Model ----
(***************************************************************************)
(* Per-user sandbox lifecycle of QB_agent: the port allocator              *)
(* (firewall_bash.ensure_user_settings), the session registry              *)
(* (agent_manager.AgentManager), the per-agent request lock and the chat   *)
(* exchange (chat_api._process_ai_response) and the idle reaper            *)
(* (background_tasks._idle_agent_cleanup_task).                            *)
(***************************************************************************)
EXTENDS Integers, Sequences, FiniteSets, TLC

None == "none"

Max2(x, y) == IF x >= y THEN x ELSE y

(***************************************************************************)
(* PORT ALLOCATOR  (core/firewall/firewall_bash.py, ensure_user_settings)  *)
(***************************************************************************)

\* config.py: the pool is configured through the environment.  The floor and
\* the block size are the defaults; the ceiling is the deployment
\* USER_PORT_POOL_END=20020 (default 40000), so that the pool holds two
\* blocks and the exhausted branch is reachable with three tenants.
USER_PORT_POOL_START == 20001
USER_PORT_POOL_END == 20020
USER_PORT_BLOCK_SIZE == 10

Tenants == {"u1", "u2", "u3"}

\* Number of concurrent database connections calling ensure_user_settings.
NumCallers == 3
Callers == 1..NumCallers

VARIABLES
    user_set,     \* committed rows of table user_set: [user_id, port_start, port_end]
    table_lock,   \* holder of LOCK TABLE user_set IN EXCLUSIVE MODE, or 0
    pcall         \* per connection: position in ensure_user_settings and its locals

portVars == <<user_set, table_lock, pcall>>

IdleCall == [pc |-> "idle", user |-> None, port_start |-> 0, port_end |-> 0,
             ret |-> <<0, 0>>]

\* SELECT port_start, port_end FROM user_set WHERE user_id = %s
RowsOf(u) == {r \in user_set : r.user_id = u}

\* SELECT COALESCE(MAX(port_end), USER_PORT_POOL_START - 1) FROM user_set
\* (READ COMMITTED: the statement sees every row committed before it runs)
MaxEnd ==
    IF user_set = {} THEN USER_PORT_POOL_START - 1
    ELSE CHOOSE m \in {r.port_end : r \in user_set} :
             \A r \in user_set : r.port_end <= m

\* A mutant of the allocation: every block starts at the pool floor.
NextPortStartFloor == USER_PORT_POOL_START

\* port_start = max(int(max_end) + 1, USER_PORT_POOL_START)
NextPortStart == Max2(MaxEnd + 1, USER_PORT_POOL_START)

\* A mutant of the table lock: LOCK TABLE grants the lock although another
\* transaction holds it.
LockGrantedAlways(c) == TRUE

\* LOCK TABLE user_set IN EXCLUSIVE MODE blocks while another transaction holds it
LockGranted(c) == table_lock = 0

\* ensure_user_settings entered for tenant u: the first SELECT.  A row found is
\* returned at once; otherwise the call goes on to take the table lock.
PSelect(c) ==
    /\ pcall[c].pc = "idle"
    /\ \E u \in Tenants :
         IF RowsOf(u) # {}
         THEN LET row == CHOOSE r \in RowsOf(u) : TRUE
              IN pcall' = [pcall EXCEPT ![c] =
                     [IdleCall EXCEPT !.pc = "done", !.user = u,
                                      !.ret = <<row.port_start, row.port_end>>]]
         ELSE pcall' = [pcall EXCEPT ![c] =
                     [IdleCall EXCEPT !.pc = "want_lock", !.user = u]]
    /\ UNCHANGED <<user_set, table_lock>>

\* cursor.execute("LOCK TABLE user_set IN EXCLUSIVE MODE")
PLock(c) ==
    /\ pcall[c].pc = "want_lock"
    /\ LockGranted(c)
    /\ table_lock' = c
    /\ pcall' = [pcall EXCEPT ![c].pc = "locked"]
    /\ UNCHANGED user_set

\* A mutant of the ceiling test: no block is ever refused.
PoolExhaustedNever(port_end) == FALSE

\* if port_end > config.USER_PORT_POOL_END: raise RuntimeError
PoolExhausted(port_end) == port_end > USER_PORT_POOL_END

\* SELECT MAX, the block computed from it, and the pool ceiling test: the
\* exhausted pool raises, the except clause rolls back (the lock is released
\* with the transaction) and the error propagates.
PCompute(c) ==
    /\ pcall[c].pc = "locked"
    /\ LET s == NextPortStart
           e == s + USER_PORT_BLOCK_SIZE - 1
       IN IF PoolExhausted(e)
          THEN /\ pcall' = [pcall EXCEPT ![c].pc = "exhausted"]
               /\ table_lock' = IF table_lock = c THEN 0 ELSE table_lock
          ELSE /\ pcall' = [pcall EXCEPT ![c].pc = "computed",
                                         ![c].port_start = s, ![c].port_end = e]
               /\ UNCHANGED table_lock
    /\ UNCHANGED user_set

\* A mutant of the table definition: user_id without the UNIQUE constraint.
UniqueViolationNever(u) == FALSE

\* user_id TEXT NOT NULL UNIQUE: an INSERT for a tenant that already
\* has a committed row is rejected.
UniqueViolation(u) == RowsOf(u) # {}

\* INSERT INTO user_set ... ; conn.commit().  user_id is UNIQUE
\* (init_db.create_user_set_table): a row of the same tenant committed by a
\* racing call makes the INSERT fail, and the call rolls back and raises.
PInsert(c) ==
    /\ pcall[c].pc = "computed"
    /\ IF UniqueViolation(pcall[c].user)
       THEN /\ pcall' = [pcall EXCEPT ![c].pc = "duplicate"]
            /\ UNCHANGED user_set
       ELSE /\ user_set' = user_set \cup
                   {[user_id |-> pcall[c].user, port_start |-> pcall[c].port_start,
                     port_end |-> pcall[c].port_end]}
            /\ pcall' = [pcall EXCEPT ![c].pc = "done",
                             ![c].ret = <<pcall[c].port_start, pcall[c].port_end>>]
    /\ table_lock' = IF table_lock = c THEN 0 ELSE table_lock

\* The call has returned or raised; the connection serves the next call.
PReturn(c) ==
    /\ pcall[c].pc \in {"done", "exhausted", "duplicate"}
    /\ pcall' = [pcall EXCEPT ![c] = IdleCall]
    /\ UNCHANGED <<user_set, table_lock>>

InitPortVars ==
    /\ user_set = {}
    /\ table_lock = 0
    /\ pcall = [c \in Callers |-> IdleCall]


(***************************************************************************)
(* TOOL FIREWALL  (core/firewall/firewall_bash.py: the bash wrapper, the   *)
(* already-wrapped check, the path check, the permission handler and the   *)
(* PreToolUse hook)                                                        *)
(*                                                                         *)
(* A text (command, path, user id) is a sequence of atoms.  An atom is a   *)
(* run of characters that the code never looks inside: a word, a           *)
(* separator, a quote.  Two texts are the same string exactly when they    *)
(* are the same sequence, "s in t" is "s is a contiguous run of t", and    *)
(* the empty text <<>> stands for both "" and a missing value, which the   *)
(* code's truth tests do not tell apart.                                   *)
(***************************************************************************)

SP == " "
SQ == "'"
DQ == "\""
SEP == "/"

\* python: s in t
Contains(t, s) ==
    \E i \in 0..(Len(t) - Len(s)) : SubSeq(t, i + 1, i + Len(s)) = s

\* shlex._find_unsafe = [^\w@%+=:,./-]: the atoms with a character outside
\* the safe class.
UnsafeAtoms == {SP, SQ, DQ, "&&", ";"}

\* the first position from i on that holds an atom of S, or Len(t) + 1
FirstAt(t, i, S) ==
    LET ks == {k \in i..Len(t) : t[k] \in S}
    IN IF ks = {} THEN Len(t) + 1 ELSE CHOOSE k \in ks : \A j \in ks : k <= j

RECURSIVE EscapeQuotes(_)
\* s.replace("'", "'\"'\"'"), one quote after the other
EscapeQuotes(s) ==
    LET q == FirstAt(s, 1, {SQ})
    IN IF q > Len(s) THEN s
       ELSE SubSeq(s, 1, q - 1) \o <<SQ, DQ, SQ, DQ, SQ>>
                \o EscapeQuotes(SubSeq(s, q + 1, Len(s)))

\* shlex.quote
Quote(s) ==
    IF s = <<>> THEN <<SQ, SQ>>
    ELSE IF \A i \in 1..Len(s) : s[i] \notin UnsafeAtoms THEN s
    ELSE <<SQ>> \o EscapeQuotes(s) \o <<SQ>>

RECURSIVE Word(_, _, _)
\* shlex reading one word from position i, cur being what it has read of it:
\* the word runs to the next blank outside quotes; a quote opens a literal
\* run up to the matching quote, and a quote left open is an error.
Word(t, i, cur) ==
    LET q == FirstAt(t, i, {SP, SQ, DQ})
        cur2 == cur \o SubSeq(t, i, q - 1)
    IN IF q > Len(t) \/ t[q] = SP
       THEN [ok |-> TRUE, word |-> cur2, next |-> q]
       ELSE LET r == FirstAt(t, q + 1, {t[q]})
            IN IF r > Len(t) THEN [ok |-> FALSE, word |-> <<>>, next |-> r]
               ELSE Word(t, r + 1, cur2 \o SubSeq(t, q + 1, r - 1))

RECURSIVE Words(_, _, _)
Words(t, i, acc) ==
    LET j == FirstAt(t, i, {t[k] : k \in 1..Len(t)} \ {SP})
    IN IF j > Len(t) THEN acc
       ELSE LET w == Word(t, j, <<>>)
            IN IF ~w.ok THEN <<>> ELSE Words(t, w.next, Append(acc, w.word))

\* shlex.split(command), POSIX mode; an error (ValueError) gives <<>>, which
\* is what the caller takes for it (parts = []).
Split(t) == Words(t, 1, <<>>)

\* config.LINUX_USER_PREFIX (default 'queen')
LINUX_USER_PREFIX == <<"queen">>

\* safe[:16] in _to_linux_user
LinuxUserSafeLen == 16

\* str.lower() and str.isalnum() on the characters user ids are made of
Lower(ch) == CASE ch = "A" -> "a" [] ch = "B" -> "b" [] OTHER -> ch
IsAlnum(ch) == ch \notin {"-", "_", SEP, SP, SQ, DQ}

RECURSIVE AlnumLower(_)
AlnumLower(s) ==
    IF s = <<>> THEN <<>>
    ELSE (IF IsAlnum(Lower(Head(s))) THEN <<Lower(Head(s))>> ELSE <<>>)
             \o AlnumLower(Tail(s))

\* _to_linux_user
ToLinuxUser(user_id) ==
    LET safe == AlnumLower(user_id)
    IN LINUX_USER_PREFIX \o
           SubSeq(safe, 1, IF Len(safe) < LinuxUserSafeLen THEN Len(safe)
                           ELSE LinuxUserSafeLen)

RECURSIVE UpToSep(_)
\* the run [^/\\]+ of the pattern
UpToSep(s) ==
    IF s = <<>> \/ Head(s) = SEP THEN <<>> ELSE <<Head(s)>> \o UpToSep(Tail(s))

\* _extract_user_id: USER_ID_PATTERN.search(work_dir), the first
\* "userid_" followed by at least one character other than a separator;
\* <<>> is None.
ExtractUserId(work_dir) ==
    LET hits == {i \in 1..Len(work_dir) :
                    /\ work_dir[i] = "userid_"
                    /\ UpToSep(SubSeq(work_dir, i + 1, Len(work_dir))) # <<>>}
    IN IF hits = {} THEN <<>>
       ELSE LET i == CHOOSE k \in hits : \A j \in hits : k <= j
            IN UpToSep(SubSeq(work_dir, i + 1, Len(work_dir)))

Hosts == {"linux", "darwin", "nt"}

\* os.name
OsName(host) == IF host = "nt" THEN "nt" ELSE "posix"

\* config.get_work_base_dir: /home/queen, or D:/queen on Windows
WorkBaseDir(host) ==
    IF OsName(host) = "nt" THEN <<"D:/", "queen">>
    ELSE <<SEP, "home", SEP, "queen">>

\* _resolve_user_workspace
ResolveUserWorkspace(host, work_dir, user_id) ==
    IF user_id = <<>> THEN work_dir
    ELSE WorkBaseDir(host) \o <<SEP, "userid_">> \o user_id

\* config.get_agent_work_dir
AgentWorkDir(host, user_id, agent_id) ==
    WorkBaseDir(host) \o <<SEP, "userid_">> \o user_id
        \o <<SEP, "agentid_", agent_id, SEP, "work">>

\* _wrap_bash_command; job is the f"{int(time.time() * 1000)}-{uuid...}" part
WrapBashCommand(command, linux_user, work_dir, job) ==
    LET unit == <<"job-">> \o linux_user \o <<"-", job>>
    IN <<"sudo", SP, "chown", SP, "-R", SP>> \o Quote(linux_user) \o <<":">>
           \o Quote(linux_user) \o <<SP>> \o Quote(work_dir)
           \o <<SP, "&&", SP, "sudo", SP, "systemd-run", SP, "--scope", SP,
                "--slice=user-">> \o Quote(linux_user) \o <<".slice", SP>>
           \o <<"--unit=">> \o Quote(unit) \o <<SP>>
           \o <<"--working-directory=">> \o Quote(work_dir) \o <<SP>>
           \o <<"--uid=">> \o Quote(linux_user) \o <<SP, "--gid=">>
           \o Quote(linux_user) \o <<SP, "--quiet", SP>>
           \o <<"bash", SP, "-lc", SP>> \o Quote(command)

\* _is_allowed_wrapped_command._has_required_workdir
HasRequiredWorkdir(cmd, work_dir) ==
    IF work_dir = <<>> THEN TRUE
    ELSE /\ Contains(cmd, <<"bash", SP, "-lc">>)
         /\ Contains(cmd, <<"cd", SP>> \o Quote(work_dir))

\* _is_allowed_wrapped_command.has_systemd_run
HasSystemdRun(tokens, start_idx, linux_user) ==
    /\ start_idx + 1 <= Len(tokens)
    /\ tokens[start_idx] = <<"sudo">>
    /\ tokens[start_idx + 1] = <<"systemd-run">>
    /\ \E k \in (start_idx + 2)..Len(tokens) : tokens[k] = <<"--scope">>
    /\ \E k \in (start_idx + 2)..Len(tokens) :
           tokens[k] = <<"--slice=user-">> \o linux_user \o <<".slice">>

\* _is_allowed_wrapped_command: a leading "time" word is dropped, then the
\* direct prefix (sudo systemd-run at the first word) or the legacy prefix
\* (sudo systemd-run at any later word) decides on the work-directory test.
IsAllowedWrappedCommand(command, linux_user, work_dir) ==
    LET parts0 == Split(command)
        parts == IF parts0 # <<>> /\ Head(parts0) = <<"time">>
                 THEN Tail(parts0) ELSE parts0
    IN IF \E idx \in 1..(Len(parts) - 1) : HasSystemdRun(parts, idx, linux_user)
       THEN HasRequiredWorkdir(command, work_dir)
       ELSE FALSE

\* A path is absolute when it starts at a root: "/" or, on Windows, a drive.
Roots == {SEP, "D:/"}
IsAbs(p) == p # <<>> /\ Head(p) \in Roots

RECURSIVE SplitSep(_, _, _)
\* the components of a path without its root: path.split(sep)
SplitSep(p, cur, acc) ==
    IF p = <<>> THEN Append(acc, cur)
    ELSE IF Head(p) = SEP THEN SplitSep(Tail(p), <<>>, Append(acc, cur))
    ELSE SplitSep(Tail(p), Append(cur, Head(p)), acc)

Comps(p) == SplitSep(p, <<>>, <<>>)

RECURSIVE NormComps(_, _)
\* os.path.normpath on the components of an absolute path: empty and "."
\* components are dropped, ".." removes the component before it and is
\* dropped at the root.
NormComps(cs, out) ==
    IF cs = <<>> THEN out
    ELSE LET c == Head(cs)
         IN IF c = <<>> \/ c = <<".">> THEN NormComps(Tail(cs), out)
            ELSE IF c = <<"..">>
                 THEN NormComps(Tail(cs),
                                IF out = <<>> THEN out
                                ELSE SubSeq(out, 1, Len(out) - 1))
            ELSE NormComps(Tail(cs), Append(out, c))

\* os.path.abspath(path) for a process whose current directory is cwd:
\* normpath(join(os.getcwd(), path))
AbsPath(path, cwd) ==
    IF IsAbs(path)
    THEN [root |-> Head(path), comps |-> NormComps(Comps(Tail(path)), <<>>)]
    ELSE [root |-> Head(cwd),
          comps |-> NormComps(Comps(Tail(cwd)) \o Comps(path), <<>>)]

\* os.path.commonpath([a, b]) == b; paths on two drives raise ValueError
Under(a, b) ==
    /\ a.root = b.root
    /\ Len(b.comps) <= Len(a.comps)
    /\ SubSeq(a.comps, 1, Len(b.comps)) = b.comps

\* _is_path_allowed; cwd is os.getcwd() of the server process
IsPathAllowed(path, allowed_dir, cwd) ==
    IF path = <<>> THEN TRUE
    ELSE Under(AbsPath(path, cwd), AbsPath(allowed_dir, cwd))

\* _extract_port_from_command: --port N, --port=N, -p N, -p=N or :N
PortAtoms == {"20001"}
ExtractPort(command) ==
    \E p \in PortAtoms :
        \/ Contains(command, <<"--port", SP, p>>)
        \/ Contains(command, <<"--port=", p>>)
        \/ Contains(command, <<"-p", SP, p>>)
        \/ Contains(command, <<"-p=", p>>)
        \/ Contains(command, <<":", p>>)

\* The input of a tool call: the keys the firewall reads.
NoInput == [command |-> <<>>, file_path |-> <<>>, path |-> <<>>, pattern |-> <<>>]

PathTools == {"Read", "Grep", "Glob"}

\* updated_input.get("file_path") or updated_input.get("path")
\*     or updated_input.get("pattern")
CheckedPath(input) ==
    IF input.file_path # <<>> THEN input.file_path
    ELSE IF input.path # <<>> THEN input.path
    ELSE input.pattern

\* A mutant of the handler's wrap condition: bash commands are never wrapped.
WrapsBashNever(host, tool, linux_user, input) == FALSE

\* the condition of the handler's wrap branch
WrapsBash(host, tool, linux_user, input) ==
    /\ OsName(host) # "nt"
    /\ tool = "Bash"
    /\ linux_user # <<>>
    /\ input.command # <<>>

\* build_tool_permission_handler(work_dir) and the handler it returns, applied
\* to one call: the decision and the input handed back to the SDK.
PermissionHandler(fw, host, cwd, work_dir, tool, input, job) ==
    IF ~fw
    THEN [behavior |-> "allow", updatedInput |-> input, systemMessage |-> <<>>]
    ELSE LET user_id == ExtractUserId(work_dir)
             linux_user == IF user_id # <<>> THEN ToLinuxUser(user_id) ELSE <<>>
             user_workspace == ResolveUserWorkspace(host, work_dir, user_id)
         IN IF /\ linux_user # <<>>
               /\ tool \in PathTools
               /\ CheckedPath(input) # <<>>
               /\ ~IsPathAllowed(CheckedPath(input), user_workspace, cwd)
            THEN [behavior |-> "deny", updatedInput |-> input,
                  systemMessage |-> user_workspace]
            ELSE IF WrapsBash(host, tool, linux_user, input)
            THEN [behavior |-> "allow",
                  updatedInput |->
                      [input EXCEPT !.command =
                          WrapBashCommand(input.command, linux_user, work_dir, job)],
                  systemMessage |-> <<>>]
            ELSE [behavior |-> "allow", updatedInput |-> input,
                  systemMessage |-> <<>>]

\* build_tool_hooks(work_dir) and its _pre_tool_logger, applied to one call.
\* hooks is FALSE when build_tool_hooks returned None; decision is the
\* permissionDecision of the hook output ("none": the output has none);
\* username and port_hint tell whether the two database lookups gave a value.
PreToolLogger(fw, host, work_dir, tool, input, job, username, port_hint) ==
    LET user_id == ExtractUserId(work_dir)
        linux_user == IF user_id # <<>> THEN ToLinuxUser(user_id) ELSE <<>>
        nothing == [decision |-> "none", updatedInput |-> input,
                    systemMessage |-> "none"]
    IN IF ~fw \/ tool # "Bash" \/ input.command = <<>> THEN nothing
       ELSE IF OsName(host) # "nt" /\ linux_user # <<>>
       THEN [decision |-> "allow",
             updatedInput |->
                 [input EXCEPT !.command =
                     WrapBashCommand(input.command, linux_user, work_dir, job)],
             systemMessage |-> IF user_id # <<>> /\ port_hint
                               THEN "port_hint" ELSE "none"]
       ELSE IF ExtractPort(input.command) /\ user_id # <<>> /\ username
       THEN [nothing EXCEPT !.systemMessage = "url"]
       ELSE IF user_id # <<>> /\ port_hint
       THEN [nothing EXCEPT !.systemMessage = "port_hint"]
       ELSE nothing

\* Tenants' user ids as the texts the paths carry, and one agent id.
UserIds == {<<"A", "1">>, <<"b", "-", "2">>}
AgentIds == {"g1"}

\* The unique part of a unit name: two wrapper calls never share one.
JobIds == {"j1", "j2"}

\* os.getcwd() of the server process: the application directory or the work
\* base directory.
AppDir(host) ==
    IF OsName(host) = "nt" THEN <<"D:/", "app">> ELSE <<SEP, "srv", SEP, "app">>
Cwds(host) == {AppDir(host), WorkBaseDir(host)}

\* The work_dir create_agent_client hands to the two builders: the configured
\* directory of the tenant's agent, or the stored custom work_dir, which can
\* be any directory (agent_manager.main uses <base>/test_agent_workspace).
SessionWorkDirs(host, uid) ==
    {AgentWorkDir(host, uid, a) : a \in AgentIds}
        \cup {WorkBaseDir(host) \o <<SEP, "test_agent_workspace">>}

\* Shell commands a model asks for, for a session in work directory wd.
RawCommands(wd) ==
    {<<"ls">>,
     <<"echo", SP, SQ, "hi", SP, "there", SQ>>,
     <<"cd", SP>> \o Quote(wd) \o <<SP, "&&", SP, "ls">>,
     <<"serve", SP, "--port", SP, "20001">>}

\* Paths a model asks for: under the session's work directory (absolute and
\* relative), outside the tenant's root (by traversal, absolute, another
\* tenant's root) and a climb out of the work directory that names the
\* tenant's root again.
Paths(host, uid, wd) ==
    LET root == Head(WorkBaseDir(host))
        other == CHOOSE o \in UserIds : o # uid
    IN {wd \o <<SEP, "subdir", SEP, "file.txt">>,
        <<"subdir", SEP, "file.txt">>,
        <<"..", SEP, "..", SEP, "etc", SEP, "passwd">>,
        <<root, "etc", SEP, "passwd">>,
        WorkBaseDir(host) \o <<SEP, "userid_">> \o other \o <<SEP, "secret">>,
        <<"..", SEP, "..", SEP, "..", SEP, "..", SEP>>
            \o Tail(WorkBaseDir(host)) \o <<SEP, "userid_">> \o uid
            \o <<SEP, "f">>}

\* The calls of tool t in a session of tenant uid with work directory wd.
Inputs(host, uid, wd, t) ==
    CASE t = "Bash" ->
             {[NoInput EXCEPT !.command = c] :
                  c \in RawCommands(wd) \cup {<<>>}
                        \cup {WrapBashCommand(<<"ls">>, ToLinuxUser(uid), wd, "j1")}}
      [] t \in {"Read", "Write"} ->
             {[NoInput EXCEPT !.file_path = p] : p \in Paths(host, uid, wd)}
      [] t = "Grep" ->
             {[NoInput EXCEPT !.path = p, !.pattern = <<"TODO">>] :
                  p \in Paths(host, uid, wd) \cup {<<>>}}
      [] t = "Glob" ->
             {[NoInput EXCEPT !.path = p, !.pattern = <<"*.py">>] :
                  p \in Paths(host, uid, wd) \cup {<<>>}}

Tools == {"Bash", "Read", "Grep", "Glob", "Write"}

VARIABLES
    env,    \* the process: FIREWALL_ENABLED, the host, os.getcwd(), whether
            \* claude_agent_sdk.HookMatcher can be imported
    hk,     \* the tool call in progress: the PreToolUse hook, then can_use_tool
    wc      \* a call of _is_allowed_wrapped_command and the command it is given

Envs ==
    {e \in [fw : BOOLEAN, host : Hosts, cwd : UNION {Cwds(x) : x \in Hosts},
            hook_matcher : BOOLEAN] : e.cwd \in Cwds(e.host)}

DefaultEnv == [fw |-> TRUE, host |-> "linux", cwd |-> AppDir("linux"),
               hook_matcher |-> TRUE]

NoResult == [behavior |-> "none", updatedInput |-> NoInput, systemMessage |-> <<>>]
NoHook == [decision |-> "none", updatedInput |-> NoInput, systemMessage |-> "none"]

IdleHook == [pc |-> "idle", tenant |-> <<>>, work_dir |-> <<>>, tool |-> "none",
             input |-> NoInput, username |-> FALSE, port_hint |-> FALSE,
             hook_ran |-> FALSE, hook |-> NoHook,
             perm_ran |-> FALSE, perm_in |-> NoInput, perm |-> NoResult,
             perm_job |-> "none"]

\* The SDK is about to run tool t: a session of tenant uid, whose handler and
\* hooks were built for work_dir wd, asks for the call.
ToolCall ==
    /\ hk.pc = "idle"
    /\ \E uid \in UserIds, t \in Tools, un \in BOOLEAN, ph \in BOOLEAN :
         \E wd \in SessionWorkDirs(env.host, uid) :
           \E inp \in Inputs(env.host, uid, wd, t) :
             hk' = [IdleHook EXCEPT !.pc = "hook", !.tenant = uid, !.work_dir = wd,
                                    !.tool = t, !.input = inp,
                                    !.username = un, !.port_hint = ph]
    /\ UNCHANGED <<env, wc>>

\* The PreToolUse hooks run first.  build_tool_hooks returned None (firewall
\* disabled, or HookMatcher missing) or the matcher is for Bash only: the call
\* goes on to can_use_tool with its input.  Otherwise _pre_tool_logger runs;
\* an output with permissionDecision "allow" and updatedInput replaces the
\* input, and the SDK either takes the decision as final or still asks
\* can_use_tool.
PreToolUse ==
    /\ hk.pc = "hook"
    /\ IF ~env.fw \/ ~env.hook_matcher \/ hk.tool # "Bash"
       THEN hk' = [hk EXCEPT !.pc = "perm"]
       ELSE \E j \in JobIds, final \in BOOLEAN :
              LET out == PreToolLogger(env.fw, env.host, hk.work_dir, hk.tool,
                                       hk.input, j, hk.username, hk.port_hint)
              IN hk' = [hk EXCEPT !.hook_ran = TRUE, !.hook = out,
                                  !.pc = IF out.decision = "allow" /\ final
                                         THEN "done" ELSE "perm"]
    /\ UNCHANGED <<env, wc>>

\* can_use_tool: the permission handler decides on the input the hooks left.
CanUseTool ==
    /\ hk.pc = "perm"
    /\ \E j \in JobIds :
         LET inp == IF hk.hook.decision = "allow" THEN hk.hook.updatedInput
                    ELSE hk.input
         IN hk' = [hk EXCEPT !.pc = "done", !.perm_ran = TRUE, !.perm_in = inp,
                             !.perm_job = j,
                             !.perm = PermissionHandler(env.fw, env.host, env.cwd,
                                          hk.work_dir, hk.tool, inp, j)]
    /\ UNCHANGED <<env, wc>>

\* The tool ran or was refused; the session asks for the next call.
ToolReturn ==
    /\ hk.pc = "done"
    /\ hk' = IdleHook
    /\ UNCHANGED <<env, wc>>

\* The identities and directories _is_allowed_wrapped_command is asked about.
LinuxUsers == {ToLinuxUser(id) : id \in UserIds}
WrapDir1 == AgentWorkDir("linux", <<"A", "1">>, "g1")
WrapDirs ==
    {WrapDir1, WrapDir1 \o <<"-evil">>, AgentWorkDir("linux", <<"b", "-", "2">>, "g1")}

\* A command written by hand that carries the wrapper's markers for identity
\* linux_user and directory work_dir: it was not made by _wrap_bash_command.
Spoofed(body, linux_user, work_dir) ==
    <<"sudo", SP, "systemd-run", SP, "--scope", SP, "--slice=user-">>
        \o linux_user \o <<".slice", SP, "--working-directory=">> \o work_dir
        \o <<SP, "bash", SP, "-lc", SP>>
        \o Quote(<<"cd", SP>> \o Quote(work_dir) \o <<SP, "&&", SP>> \o body)

IdleWc == [pc |-> "idle", command |-> <<>>, origin |-> "none", raw |-> <<>>,
           m_user |-> <<>>, m_dir |-> <<>>, linux_user |-> <<>>,
           work_dir |-> <<>>, result |-> FALSE]

\* _wrap_bash_command makes the command
WcWrap ==
    /\ wc.pc = "idle"
    /\ \E u \in LinuxUsers, d \in WrapDirs, j \in JobIds :
         \E c \in RawCommands(WrapDir1) :
           wc' = [IdleWc EXCEPT !.pc = "made", !.origin = "wrap", !.raw = c,
                                !.m_user = u, !.m_dir = d,
                                !.command = WrapBashCommand(c, u, d, j)]
    /\ UNCHANGED <<env, hk>>

\* a caller writes the command
WcSpoof ==
    /\ wc.pc = "idle"
    /\ \E u \in LinuxUsers, d \in WrapDirs :
         wc' = [IdleWc EXCEPT !.pc = "made", !.origin = "spoof", !.raw = <<"ls">>,
                              !.m_user = u, !.m_dir = d,
                              !.command = Spoofed(<<"ls">>, u, d)]
    /\ UNCHANGED <<env, hk>>

\* _is_allowed_wrapped_command(command, linux_user, work_dir)
WcCheck ==
    /\ wc.pc = "made"
    /\ \E u \in LinuxUsers, d \in WrapDirs :
         wc' = [wc EXCEPT !.pc = "checked", !.linux_user = u, !.work_dir = d,
                          !.result = IsAllowedWrappedCommand(wc.command, u, d)]
    /\ UNCHANGED <<env, hk>>

WcReturn ==
    /\ wc.pc = "checked"
    /\ wc' = IdleWc
    /\ UNCHANGED <<env, hk>>

(***************************************************************************)
(* PROVISIONING  (firewall_bash.ensure_user_firewall)                      *)
(*                                                                         *)
(* Every command runs in a worker thread (asyncio.to_thread): each is one  *)
(* step, and calls of two logins interleave between the commands.  A       *)
(* command that exits non-zero under check=True raises CalledProcessError. *)
(***************************************************************************)

\* Number of logins that run ensure_user_firewall at the same time.
NumProvCallers == 2
ProvCallers == 1..NumProvCallers

\* Cap on the rules counted per identity in chain user_ports.
MaxRules == 8

\* The "add rule" commands of _apply_user_port_firewall
RULES_PER_CALL == 4

ProvSteps == {"identity", "mkdir", "chown", "chmod", "caps", "io", "ports"}

VARIABLES
    os_state,   \* the host: passwd entries, workspaces, slice properties, nft rules
    pv          \* per login: position in ensure_user_firewall and what it did

fwVars == <<env, hk, wc, os_state, pv>>

NoWorkspace == [exists |-> FALSE, owner |-> <<>>, mode |-> "none"]

IdleProv == [pc |-> "idle", user_id |-> <<>>, attempted |-> {}, failed |-> {},
             logged |-> {}]

\* os_state with field f of key k set to v
OsSet(f, k, v) == [os_state EXCEPT ![f][k] = v]

\* A lookup whose exit code is not looked at.
IdMissingAlways(returncode) == TRUE

\* if result.returncode != 0
IdMissing(returncode) == returncode # 0

\* what the call does after step s of call c came out as ok: go on to pc next,
\* or log under the name of the enclosing try block and return
ProvAfter(c, s, ok, next, block) ==
    pv' = [pv EXCEPT ![c].attempted = @ \cup {s},
                     ![c].failed = IF ok THEN @ ELSE @ \cup {s},
                     ![c].logged = IF ok THEN @ ELSE @ \cup {block},
                     ![c].pc = IF ok THEN next ELSE "done"]

\* ensure_user_firewall(user_id) entered: the firewall switch, os.name and
\* the cgroup check (stat prints the filesystem type, or fails).
PvStart(c) ==
    /\ pv[c].pc = "idle"
    /\ \E u \in UserIds, cg \in {"cgroup2fs", "tmpfs", "error"} :
         /\ env.host # "linux" => cg # "cgroup2fs"
         /\ pv' = [pv EXCEPT ![c] =
                [IdleProv EXCEPT !.user_id = u,
                     !.logged = IF env.fw /\ OsName(env.host) # "nt" /\ cg = "error"
                                THEN {"cgroup"} ELSE {},
                     !.pc = IF env.fw /\ OsName(env.host) # "nt" /\ cg = "cgroup2fs"
                            THEN "id" ELSE "done"]]
    /\ UNCHANGED <<env, hk, wc, os_state>>

\* subprocess.run(["id", linux_user]): a lookup that cannot run raises; the
\* identity is created only when the lookup exits non-zero.
PvIdLookup(c) ==
    /\ pv[c].pc = "id"
    /\ \E ran \in BOOLEAN :
         LET lu == ToLinuxUser(pv[c].user_id)
             returncode == IF os_state.passwd[lu] > 0 THEN 0 ELSE 1
         IN IF ~ran
            THEN ProvAfter(c, "identity", FALSE, "done", "user setup")
            ELSE pv' = [pv EXCEPT ![c].pc = IF IdMissing(returncode)
                                            THEN "mkbase" ELSE "mkdir"]
    /\ UNCHANGED <<env, hk, wc, os_state>>

\* sudo mkdir -p /home/qb_user
PvMkBase(c) ==
    /\ pv[c].pc = "mkbase"
    /\ \E ok \in BOOLEAN :
         /\ ProvAfter(c, "identity", ok, "useradd", "user setup")
         /\ os_state' = IF ok THEN [os_state EXCEPT !.qb_base = TRUE] ELSE os_state
    /\ UNCHANGED <<env, hk, wc>>

\* sudo useradd -m -s /bin/bash -d /home/qb_user/<user_id> <linux_user>:
\* useradd refuses a name that has a passwd entry.
PvUseradd(c) ==
    /\ pv[c].pc = "useradd"
    /\ \E fine \in BOOLEAN :
         LET lu == ToLinuxUser(pv[c].user_id)
             ok == fine /\ os_state.passwd[lu] = 0
         IN /\ ProvAfter(c, "identity", ok, "mkdir", "user setup")
            /\ os_state' = IF ok THEN OsSet("passwd", lu, os_state.passwd[lu] + 1)
                           ELSE os_state
    /\ UNCHANGED <<env, hk, wc>>

\* sudo mkdir -p <workspace_dir>: a new directory belongs to root
PvMkdir(c) ==
    /\ pv[c].pc = "mkdir"
    /\ \E ok \in BOOLEAN :
         LET u == pv[c].user_id
         IN /\ ProvAfter(c, "mkdir", ok, "chown", "workspace/slice setup")
            /\ os_state' = IF ok /\ ~os_state.workspace[u].exists
                           THEN OsSet("workspace", u,
                                      [exists |-> TRUE, owner |-> <<"root">>,
                                       mode |-> "755"])
                           ELSE os_state
    /\ UNCHANGED <<env, hk, wc>>

\* sudo chown -R <linux_user>:<linux_user> <workspace_dir>
PvChown(c) ==
    /\ pv[c].pc = "chown"
    /\ \E fine \in BOOLEAN :
         LET u == pv[c].user_id
             lu == ToLinuxUser(u)
             ok == fine /\ os_state.workspace[u].exists /\ os_state.passwd[lu] > 0
         IN /\ ProvAfter(c, "chown", ok, "chmod", "workspace/slice setup")
            /\ os_state' = IF ok
                           THEN OsSet("workspace", u,
                                      [os_state.workspace[u] EXCEPT !.owner = lu])
                           ELSE os_state
    /\ UNCHANGED <<env, hk, wc>>

\* sudo chmod 700 <workspace_dir>
PvChmod(c) ==
    /\ pv[c].pc = "chmod"
    /\ \E fine \in BOOLEAN :
         LET u == pv[c].user_id
             ok == fine /\ os_state.workspace[u].exists
         IN /\ ProvAfter(c, "chmod", ok, "caps", "workspace/slice setup")
            /\ os_state' = IF ok
                           THEN OsSet("workspace", u,
                                      [os_state.workspace[u] EXCEPT !.mode = "700"])
                           ELSE os_state
    /\ UNCHANGED <<env, hk, wc>>

\* sudo systemctl set-property user-<linux_user>.slice MemoryMax= TasksMax=
\* CPUQuota=
PvCaps(c) ==
    /\ pv[c].pc = "caps"
    /\ \E ok \in BOOLEAN :
         LET lu == ToLinuxUser(pv[c].user_id)
         IN /\ ProvAfter(c, "caps", ok, "io", "workspace/slice setup")
            /\ os_state' = IF ok THEN OsSet("caps", lu, TRUE) ELSE os_state
    /\ UNCHANGED <<env, hk, wc>>

\* _apply_user_io_limits: nothing to do without a root block device;
\* set-property runs with check=False, a non-zero exit is neither raised nor
\* logged.
PvIoLimits(c) ==
    /\ pv[c].pc = "io"
    /\ \E ok \in BOOLEAN :
         LET lu == ToLinuxUser(pv[c].user_id)
         IN /\ pv' = [pv EXCEPT ![c].attempted = @ \cup {"io"},
                                ![c].failed = IF ok /\ os_state.rootdev THEN @
                                              ELSE @ \cup {"io"},
                                ![c].logged = IF os_state.rootdev THEN @
                                              ELSE @ \cup {"io device"},
                                ![c].pc = "ports"]
            /\ os_state' = IF ok /\ os_state.rootdev THEN OsSet("io", lu, TRUE)
                           ELSE os_state
    /\ UNCHANGED <<env, hk, wc>>

\* ensure_user_settings, then _apply_user_port_firewall.  The allocation can
\* raise (pool exhausted, database error), which the inner try logs.  Without
\* nft the rules are skipped.  Otherwise "add table" and "add chain" leave an
\* existing table and chain as they are, and each "add rule" appends one rule
\* to the chain; the commands run with check=False, a non-zero exit is
\* neither raised nor logged.
PvPortRules(c) ==
    /\ pv[c].pc = "ports"
    /\ \E allocated \in BOOLEAN, ok \in BOOLEAN :
         LET lu == ToLinuxUser(pv[c].user_id)
             n == os_state.rules[lu]
             adds == allocated /\ os_state.nft /\ ok
         IN /\ pv' = [pv EXCEPT ![c].attempted = @ \cup {"ports"},
                                ![c].failed = IF adds THEN @ ELSE @ \cup {"ports"},
                                ![c].logged =
                                    IF ~allocated THEN @ \cup {"port rules"}
                                    ELSE IF ~os_state.nft THEN @ \cup {"nft"}
                                    ELSE @,
                                ![c].pc = "done"]
            /\ os_state' = IF adds /\ n + RULES_PER_CALL <= MaxRules
                           THEN OsSet("rules", lu, n + RULES_PER_CALL)
                           ELSE os_state
    /\ UNCHANGED <<env, hk, wc>>

\* ensure_user_firewall has returned
PvReturn(c) ==
    /\ pv[c].pc = "done"
    /\ pv' = [pv EXCEPT ![c] = IdleProv]
    /\ UNCHANGED <<env, hk, wc, os_state>>

FreshHost(nft, rootdev) ==
    [passwd |-> [l \in LinuxUsers |-> 0],
     qb_base |-> FALSE,
     workspace |-> [u \in UserIds |-> NoWorkspace],
     caps |-> [l \in LinuxUsers |-> FALSE],
     io |-> [l \in LinuxUsers |-> FALSE],
     rules |-> [l \in LinuxUsers |-> 0],
     nft |-> nft, rootdev |-> rootdev]

InitFwVars ==
    /\ env = DefaultEnv
    /\ hk = IdleHook
    /\ wc = IdleWc
    /\ os_state = FreshHost(TRUE, TRUE)
    /\ pv = [c \in ProvCallers |-> IdleProv]


(***************************************************************************)
(* SESSION REGISTRY, REQUEST LOCK, EXCHANGE, IDLE REAPER                   *)
(* (core/agent/agent_manager.py, core/chat/chat_api.py,                    *)
(*  core/scheduler/background_tasks.py)                                    *)
(*                                                                         *)
(* The service runs one asyncio event loop: code between two awaits that   *)
(* really suspend is one atomic step.  The awaits that suspend are the     *)
(* SDK calls (connect, disconnect, query / receive_response, process.wait),*)
(* the knowledge-base lookup, asyncio.sleep and a contended lock.          *)
(***************************************************************************)

Agents == {"a1", "a2"}
Reqs == {"r1", "r2"}
Creators == {"k1", "k2"}
Tasks == Reqs \cup Creators \cup {"reaper", "user"}

\* Both chat sessions talk to the same agent: the lock and the registry are
\* keyed by the agent id, the message queue by (agent id, session id).
AgentOf(r) == "a1"
SessionOf(r) == IF r = "r1" THEN "s1" ELSE "s2"
Sessions == {"s1", "s2"}

\* Number of ClaudeSDKClient objects that can be constructed in a run; at the
\* cap create_agent_client only fails.
MaxHandles == 3
Handles == 1..MaxHandles

\* The clock stops at MaxTime.
MaxTime == 2

\* config.IDLE_TIMEOUT_SECONDS in clock units (configured through the
\* environment).
IDLE_TIMEOUT_SECONDS == 1

\* The conversation id the agent runtime gives a conversation started
\* without a resume token on handle h.
FreshConv(h) == "c" \o ToString(h)

VARIABLES
    clients,            \* AgentManager._clients: agent id -> handle, 0 = no key
    clients_keys,       \* list(AgentManager._clients.keys()): the keys in insertion order
    client_options,     \* AgentManager._client_options: agent id -> the handle whose options object it holds, 0 = no key
    client_connected,   \* AgentManager._client_connected: "absent" (no key), "false", "true"
    agent_last_active,  \* AgentManager._agent_last_active: time, -1 = no key
    handles,            \* every ClaudeSDKClient constructed so far
    num_handles,        \* how many were constructed
    agent_locks,        \* chat_api.agent_locks: holder of the agent's asyncio.Lock
    session_claude_id,  \* chat_sessions.session_claude_id per chat session
    now,                \* datetime.now()
    req,                \* per _process_ai_response task: position and locals
    closing,            \* per task: its close_agent_client call in flight
    reaper,             \* _idle_agent_cleanup_task: position and locals
    user,               \* login / logout handler of the owner
    creators,           \* per direct initialize_agent_client call: its position
    close_ret,          \* the last return of close_agent_client on a registered id
    logout              \* logout_user_agents / close_all_clients: the pass and its locals

VARIABLES
    pending_message_queues, \* chat_api.pending_message_queues: key -> the messages waiting, <<>> = no key or empty list
    queue_processing_flags, \* chat_api.queue_processing_flags: key -> bool, FALSE = no key or False
    pq,                     \* per key: the _process_queue task created for it and its position
    handed,                 \* per key: the combined messages passed to _process_ai_response so far
    next_msg                \* per key: how many send_message calls reached the enqueue

queueVars == <<pending_message_queues, queue_processing_flags, pq, handed, next_msg>>

VARIABLES
    task_custom_mcp,    \* the task_custom_mcp table: task id -> its row, NoRow = no row
    scheduler_jobs,     \* the job ids in the job store of do_mcp_task._scheduler
    scheduler_running,  \* _scheduler.running
    execs               \* per task id: the _execute_task run of its job and its locals

schedVars == <<task_custom_mcp, scheduler_jobs, scheduler_running, execs>>
bgVars == <<queueVars, schedVars>>

regVars == <<clients, clients_keys, client_options, client_connected,
            agent_last_active>>
agentVars == <<clients, clients_keys, client_options, client_connected, agent_last_active,
               handles, num_handles, agent_locks, session_claude_id, now,
               req, closing, reaper, user, creators, close_ret, logout>>
sessVars == <<agentVars, bgVars>>
vars == <<user_set, table_lock, pcall, clients, clients_keys, client_options,
          client_connected, agent_last_active, handles, num_handles,
          agent_locks, session_claude_id, now, req, closing, reaper, user,
          creators, close_ret, logout, pending_message_queues,
          queue_processing_flags, pq, handed, next_msg,
          task_custom_mcp, scheduler_jobs, scheduler_running, execs,
          env, hk, wc, os_state, pv>>

TeardownSteps == {"disconnect", "close", "kill"}

\* A ClaudeSDKClient: the agent id it was created for, the resume field of its
\* ClaudeAgentOptions, its CLI subprocess, the conversation its subprocess runs, and the teardown
\* sub-steps close_agent_client has attempted on it.
NoHandle == [agent |-> None, resume |-> None, proc |-> "none", conv |-> None,
             torn |-> {}]

NoClose == [st |-> "none", h |-> 0, a |-> None, cont |-> None]

IdleReq == [pc |-> "idle", retry |-> FALSE, tok |-> None, client |-> 0,
            conn |-> 0, attempts |-> 0, recov |-> 0, errs |-> 0,
            fatal1 |-> FALSE, outcome |-> None, raced |-> FALSE,
            e_old |-> 0, e_cur |-> None, e_ret |-> None]

\* The four maps as one value, to compose the steps of one atomic stretch.
Reg == [clients |-> clients, keys |-> clients_keys, options |-> client_options,
        connected |-> client_connected, last_active |-> agent_last_active]

SetReg(R) ==
    /\ clients' = R.clients
    /\ clients_keys' = R.keys
    /\ client_options' = R.options
    /\ client_connected' = R.connected
    /\ agent_last_active' = R.last_active

\* A mutant of the deregistration: the entry is left in the maps.
DeregisteredNot(R, a) == R

\* close_agent_client, lines 262-268: del self._clients[agent_id] and the
\* three guarded dels.  A missing key raises KeyError at the first del, the
\* outer except returns False, and the other maps are not touched.
Deregistered(R, a) ==
    IF R.clients[a] = 0 THEN R
    ELSE [clients |-> [R.clients EXCEPT ![a] = 0],
          keys |-> SelectSeq(R.keys, LAMBDA k : k # a),
          options |-> [R.options EXCEPT ![a] = 0],
          connected |-> [R.connected EXCEPT ![a] = "absent"],
          last_active |-> [R.last_active EXCEPT ![a] = -1]]

\* create_agent_client, lines 164-167
Registered(R, a, h, t) ==
    [clients |-> [R.clients EXCEPT ![a] = h],
     keys |-> IF R.clients[a] = 0 THEN Append(R.keys, a) ELSE R.keys,
     options |-> [R.options EXCEPT ![a] = h],
     connected |-> [R.connected EXCEPT ![a] = "false"],
     last_active |-> [R.last_active EXCEPT ![a] = t]]

\* create_agent_client(agent_id, ..., session_id = tok) on an id that is not
\* registered (every call site reaches it with the id absent, so line 91 does
\* not run): a new client is constructed and registered, or an exception in
\* the body makes it return False and nothing is registered.
Created(R, H, n, a, tok, ok) ==
    IF ok /\ n < MaxHandles
    THEN [R |-> Registered(R, a, n + 1, now),
          H |-> [H EXCEPT ![n + 1] = [NoHandle EXCEPT !.agent = a, !.resume = tok]],
          n |-> n + 1, client |-> n + 1]
    ELSE [R |-> R, H |-> H, n |-> n, client |-> 0]


\* A mutant of the lock: acquire succeeds although the lock is held.
LockFreeAlways(a) == TRUE

\* get_agent_lock(agent_id) and asyncio.Lock: `async with lock` goes on only
\* when no task holds the agent's lock.
LockFree(a) == agent_locks[a] = None

\* A mutant of the reaper's comparison: >= instead of >.
IdleExceededOrEqual(idle) == idle >= IDLE_TIMEOUT_SECONDS

\* idle_time > timeout_threshold
IdleExceeded(idle) == idle > IDLE_TIMEOUT_SECONDS

\* A mutant of the rebuild decision: a resume mismatch never rebuilds.
NeedRebuildWorkDirOnly(tok, cur, opt, wd) == wd

\* _ensure_agent_client, lines 504-540: rebuild when the configured work_dir
\* differs from the client's, or when the session's token and the client's
\* resume are both set and differ (or the options entry is missing, so the
\* in-place update raises).  A session without token reuses the client.
NeedRebuild(tok, cur, opt, wd) ==
    \/ wd
    \/ /\ tok # None
       /\ tok # cur
       /\ (cur # None \/ opt = 0)

\* _ensure_agent_client returned c (0 = None) to _process_ai_response, line
\* 613-618: without client the call logs a warning and returns.  `raced`
\* records that the request has had a client while the reaper was closing it.
AfterEnsure(rq, c, bound) ==
    IF c = 0
    THEN [rq EXCEPT !.pc = "done", !.outcome = "unavailable"]
    ELSE [rq EXCEPT !.pc = "lockwait", !.client = c, !.e_ret = bound,
                    !.raced = @ \/ (closing["reaper"].st # "none"
                                      /\ closing["reaper"].h = c)]

\* _ensure_agent_client, lines 552-580, for request t whose registry and
\* clients are R1 and H1: initialize_agent_client with the session's token.
EnsureCreate(t, rq, R1, H1) ==
    \E ok \in BOOLEAN :
        LET cr == Created(R1, H1, num_handles, AgentOf(t), rq.tok, ok)
        IN /\ SetReg(cr.R)
           /\ handles' = cr.H
           /\ num_handles' = cr.n
           /\ req' = [req EXCEPT ![t] = AfterEnsure(rq, cr.client, rq.tok)]
           /\ closing' = [closing EXCEPT ![t] = NoClose]
           /\ UNCHANGED session_claude_id

\* _process_ai_response, lines 753-755, after the recovery's close returned:
\* the persisted token is cleared, _ensure_agent_client(agent_id, user_id,
\* None) finds no client (nothing suspended since the close) and creates one,
\* and the nested _process_ai_response(_retry=True) reads the session row and
\* suspends in the knowledge-base lookup.
RecoveryResume(t, R1, H1) ==
    \E ok \in BOOLEAN :
        LET cr == Created(R1, H1, num_handles, AgentOf(t), None, ok)
        IN /\ SetReg(cr.R)
           /\ handles' = cr.H
           /\ num_handles' = cr.n
           /\ session_claude_id' =
                  [session_claude_id EXCEPT ![SessionOf(t)] = None]
           /\ req' = [req EXCEPT ![t] =
                  [req[t] EXCEPT !.pc = "kb", !.retry = TRUE, !.tok = None,
                                 !.client = 0, !.conn = 0, !.e_old = 0,
                                 !.e_cur = None, !.e_ret = None]]
           /\ closing' = [closing EXCEPT ![t] = NoClose]

\* create_agent_client, lines 93-174, after the close of line 91 returned:
\* the client is constructed and registered, or an exception makes the call
\* return False.
CreateResume(t, R1, H1) ==
    \E ok \in BOOLEAN :
        LET cr == Created(R1, H1, num_handles, closing[t].a, None, ok)
        IN /\ SetReg(cr.R)
           /\ handles' = cr.H
           /\ num_handles' = cr.n
           /\ creators' = [creators EXCEPT ![t] = "done"]
           /\ closing' = [closing EXCEPT ![t] = NoClose]
           /\ UNCHANGED <<session_claude_id, req>>

\* _idle_agent_cleanup_task, lines 41-55, from the ids still to visit up to
\* the next close that suspends: an id without last_active entry, or not idle
\* longer than the timeout, is skipped; close_agent_client on an id that is
\* not registered returns False at once.  `seen` collects the handles the
\* loop visited while they were registered and idle longer than the timeout.
RECURSIVE Scan(_, _, _, _)
Scan(ids, tick, R, seen) ==
    IF ids = <<>> THEN [target |-> None, rest |-> <<>>, seen |-> seen]
    ELSE LET a == Head(ids)
             seen1 == IF /\ R.clients[a] # 0
                         /\ R.last_active[a] # -1
                         /\ tick - R.last_active[a] > IDLE_TIMEOUT_SECONDS
                      THEN seen \cup {R.clients[a]} ELSE seen
         IN IF /\ R.last_active[a] # -1
               /\ IdleExceeded(tick - R.last_active[a])
               /\ R.clients[a] # 0
            THEN [target |-> a, rest |-> Tail(ids), seen |-> seen1]
            ELSE Scan(Tail(ids), tick, R, seen1)

\* The reaper asleep: its locals, and what its last sweep saw and left.
IdleReaper == [pc |-> "sleep", ids |-> <<>>, tick |-> 0, idle_at_tick |-> {},
               idle_seen |-> {}, issued_idle |-> 0, left |-> {}]

\* The reaper goes on from registry R1 with `ids` left: it suspends in the
\* close of the next idle session, or finishes the sweep and sleeps.
ReaperGoesOn(rp, ids, R1) ==
    LET sc == Scan(ids, rp.tick, R1, rp.idle_seen)
    IN IF sc.target # None
       THEN /\ closing' = [closing EXCEPT !["reaper"] =
                   [st |-> "disc", h |-> R1.clients[sc.target],
                    a |-> sc.target, cont |-> "reap"]]
            /\ reaper' = [rp EXCEPT !.pc = "sweep", !.ids = sc.rest,
                   !.idle_seen = sc.seen,
                   !.issued_idle = now - R1.last_active[sc.target]]
            /\ req' = [r \in Reqs |->
                   IF /\ req[r].pc \in {"lockwait", "connecting", "exch"}
                      /\ req[r].client = R1.clients[sc.target]
                   THEN [req[r] EXCEPT !.raced = TRUE] ELSE req[r]]
       ELSE /\ closing' = [closing EXCEPT !["reaper"] = NoClose]
            /\ UNCHANGED req
            /\ reaper' = [IdleReaper EXCEPT !.idle_seen = sc.seen,
                   !.left = {a \in rp.idle_at_tick : R1.clients[a] # 0}]

\* The owners of agents, and the rows of table users that a run can hold:
\* every agent (user_type 'ai') has one owner.
Owners == {"o1", "o2"}
UsersTables == [Agents -> Owners]

\* A mutant of the query: every agent, whoever owns it.
OwnedAgentsAll(users, owner_id) == Agents

\* SELECT id, username FROM users WHERE user_type = 'ai' AND owner_id = %s
OwnedAgents(users, owner_id) == {a \in Agents : users[a] = owner_id}

\* The orders in which a query can return the ids of set S
RowOrders(S) ==
    {q \in UNION {[1..n -> S] : n \in 0..Cardinality(S)} :
        /\ Len(q) = Cardinality(S)
        /\ \A i, j \in 1..Len(q) : i # j => q[i] # q[j]}

\* The elements of sequence q
Range(q) == {q[i] : i \in 1..Len(q)}

\* No pass running; what the last pass worked on and found.  `owned` are the
\* agents whose row in users names the owner who logs out, `ids` the ids the
\* pass iterates over.
IdlePass == [pc |-> "idle", kind |-> None, owned |-> {}, ids |-> {},
             rest |-> <<>>, visited |-> {}, targets |-> {}, closed_count |-> 0]

\* logout_user_agents, lines 414-421, and close_all_clients, lines 289-291:
\* the ids still to visit: close_agent_client on an id that is not registered
\* returns False at once, on a registered id it suspends in the teardown.
\* The result is the part of ids that starts at the first registered id.
RECURSIVE FromRegistered(_, _)
FromRegistered(ids, R) ==
    IF ids = <<>> THEN <<>>
    ELSE IF R.clients[Head(ids)] # 0 THEN ids
    ELSE FromRegistered(Tail(ids), R)

\* The pass goes on from registry R1 with `ids` left: it suspends in the
\* close of the next registered id, or ends.  `visited` collects the ids the
\* loop has reached, `targets` the handles it found registered under them.
PassGoesOn(lo, ids, R1) ==
    LET s == FromRegistered(ids, R1)
    IN IF s # <<>>
       THEN /\ closing' = [closing EXCEPT !["user"] =
                   [st |-> "disc", h |-> R1.clients[Head(s)], a |-> Head(s),
                    cont |-> "pass"]]
            /\ logout' = [lo EXCEPT !.pc = "pass", !.rest = Tail(s),
                   !.visited = @ \cup (Range(ids) \ Range(Tail(s))),
                   !.targets = @ \cup {R1.clients[Head(s)]}]
            /\ user' = "closing"
       ELSE /\ closing' = [closing EXCEPT !["user"] = NoClose]
            /\ logout' = [lo EXCEPT !.pc = "done", !.rest = <<>>,
                   !.visited = @ \cup Range(ids)]
            /\ user' = "idle"

\* close_agent_client, lines 249-250 and 256-257: `except Exception: pass`
\* around disconnect() and close(); the next sub-step runs whatever happened.
Swallowed(step, ok) == TRUE

\* close_agent_client returns to the task that called it for a registered id:
\* after the teardown sub-steps with the entry deleted (dereg), or from the
\* outer except clause without the deletion.
CloseReturn(t, H1, dereg) ==
    LET a == closing[t].a
        R1 == IF dereg THEN Deregistered(Reg, a) ELSE Reg
    IN /\ close_ret' = [task |-> t,
                        gone |-> /\ R1.clients[a] = 0
                                 /\ R1.options[a] = 0
                                 /\ R1.connected[a] = "absent"
                                 /\ R1.last_active[a] = -1,
                        torn |-> H1[closing[t].h].torn]
       /\ UNCHANGED <<agent_locks, now>>
       /\ CASE closing[t].cont = "reap" ->
                 /\ SetReg(R1)
                 /\ handles' = H1
                 /\ ReaperGoesOn(reaper, reaper.ids, R1)
                 /\ UNCHANGED <<num_handles, session_claude_id, user,
                                creators, logout>>
            [] closing[t].cont = "user" ->
                 /\ SetReg(R1)
                 /\ handles' = H1
                 /\ closing' = [closing EXCEPT ![t] = NoClose]
                 /\ user' = "idle"
                 /\ UNCHANGED <<num_handles, session_claude_id, req, reaper,
                                creators, logout>>
            [] closing[t].cont = "ens" ->
                 /\ EnsureCreate(t, req[t], R1, H1)
                 /\ UNCHANGED <<reaper, user, creators, logout>>
            [] closing[t].cont = "rec" ->
                 /\ RecoveryResume(t, R1, H1)
                 /\ UNCHANGED <<reaper, user, creators, logout>>
            [] closing[t].cont = "cre" ->
                 /\ CreateResume(t, R1, H1)
                 /\ UNCHANGED <<reaper, user, logout>>
            [] closing[t].cont = "pass" ->
                 /\ SetReg(R1)
                 /\ handles' = H1
                 /\ PassGoesOn([logout EXCEPT !.closed_count =
                                    IF dereg /\ Reg.clients[a] # 0
                                    THEN @ + 1 ELSE @],
                               logout.rest, R1)
                 /\ UNCHANGED <<num_handles, session_claude_id, req, reaper,
                                creators>>

\* close_agent_client, lines 246-259: disconnect() has returned or raised,
\* close() is attempted, and _force_kill_cli_process runs: a CLI process that
\* has not exited is sent terminate() and waited for, otherwise the entry is
\* deleted at once.
CloseDisconnectDone(t) ==
    /\ closing[t].st = "disc"
    /\ \E disc_ok \in BOOLEAN, close_ok \in BOOLEAN :
         LET h == closing[t].h
             to_close == Swallowed("disconnect", disc_ok)
             to_kill == to_close /\ Swallowed("close", close_ok)
             p1 == IF disc_ok /\ handles[h].proc = "running" THEN "dead"
                   ELSE handles[h].proc
             H1 == [handles EXCEPT ![h].proc = p1,
                        ![h].torn = @ \cup {"disconnect"}
                            \cup (IF to_close THEN {"close"} ELSE {})
                            \cup (IF to_kill THEN {"kill"} ELSE {})]
         IN IF to_kill /\ p1 = "running"
            THEN /\ handles' = H1
                 /\ closing' = [closing EXCEPT ![t].st = "kill"]
                 /\ UNCHANGED <<regVars, num_handles, agent_locks,
                                session_claude_id, now, req, reaper, user,
                                creators, close_ret, logout>>
            ELSE CloseReturn(t, H1, to_kill)
    /\ UNCHANGED <<portVars, fwVars, bgVars>>

\* _force_kill_cli_process, lines 306-314: process.wait() has returned or
\* raised; terminate() may have failed (suppressed), leaving the process.
CloseKillDone(t) ==
    /\ closing[t].st = "kill"
    /\ \E term_ok \in BOOLEAN :
         LET h == closing[t].h
             H1 == [handles EXCEPT ![h].proc =
                        IF term_ok /\ @ = "running" THEN "dead" ELSE @]
         IN CloseReturn(t, H1, TRUE)
    /\ UNCHANGED <<portVars, fwVars, bgVars>>

\* _process_queue hands a message to _process_ai_response, lines 593-608: the
\* session row is read and the call suspends in the knowledge-base lookup.
ReqStart(r) ==
    /\ req[r].pc = "idle"
    /\ req' = [req EXCEPT ![r] =
           [IdleReq EXCEPT !.pc = "kb", !.tok = session_claude_id[SessionOf(r)]]]
    /\ UNCHANGED <<regVars, handles, num_handles, agent_locks,
                   session_claude_id, now, closing, reaper, user, close_ret>>
    /\ UNCHANGED <<portVars, fwVars, bgVars, creators, logout>>

\* _ensure_agent_client, lines 496-580, up to its return or to the suspension
\* in the rebuild's close_agent_client.
ReqEnsure(r) ==
    /\ req[r].pc = "kb"
    /\ \E wd \in BOOLEAN :
         LET a == AgentOf(r)
             h == clients[a]
             opt == client_options[a]
             cur == IF opt # 0 THEN handles[opt].resume ELSE None
             tok == req[r].tok
             upd == tok # None /\ tok # cur /\ cur = None /\ opt # 0
             H1 == IF upd THEN [handles EXCEPT ![opt].resume = tok] ELSE handles
             rq == [req[r] EXCEPT !.e_old = h, !.e_cur = cur]
         IN IF h = 0
            THEN /\ ~wd
                 /\ EnsureCreate(r, rq, Reg, handles)
            ELSE IF NeedRebuild(tok, cur, opt, wd)
            THEN /\ handles' = H1
                 /\ req' = [req EXCEPT ![r] = [rq EXCEPT !.pc = "closing"]]
                 /\ closing' = [closing EXCEPT ![r] =
                        [st |-> "disc", h |-> h, a |-> a, cont |-> "ens"]]
                 /\ UNCHANGED <<regVars, num_handles, session_claude_id>>
            ELSE /\ handles' = H1
                 /\ req' = [req EXCEPT ![r] = AfterEnsure(rq, h,
                        IF opt # 0 THEN H1[opt].resume ELSE None)]
                 /\ UNCHANGED <<regVars, num_handles, session_claude_id, closing>>
    /\ UNCHANGED <<agent_locks, now, reaper, user, close_ret>>
    /\ UNCHANGED <<portVars, fwVars, bgVars, creators, logout>>

\* A mutant of ensure_client_connected: last_active is not written.
BumpedNot(last_active, a, t) == last_active

\* self._agent_last_active[agent_id] = datetime.now()
Bumped(last_active, a, t) == [last_active EXCEPT ![a] = t]

\* _process_ai_response, lines 620-635: the lock is acquired and
\* ensure_client_connected runs up to connect(); its result is ignored, so
\* without a registered client, or with one flagged connected, query() is
\* sent on the client _ensure_agent_client returned.
ReqLock(r) ==
    /\ req[r].pc = "lockwait"
    /\ LockFree(AgentOf(r))
    /\ LET a == AgentOf(r)
           c == clients[a]
       IN /\ agent_locks' = [agent_locks EXCEPT ![a] = r]
          /\ IF c = 0
             THEN /\ req' = [req EXCEPT ![r].pc = "exch", ![r].attempts = @ + 1]
                  /\ UNCHANGED agent_last_active
             ELSE IF client_connected[a] = "true"
             THEN /\ req' = [req EXCEPT ![r].pc = "exch", ![r].attempts = @ + 1]
                  /\ agent_last_active' = Bumped(agent_last_active, a, now)
             ELSE /\ req' = [req EXCEPT ![r].pc = "connecting", ![r].conn = c]
                  /\ UNCHANGED agent_last_active
    /\ UNCHANGED <<clients, clients_keys, client_options, client_connected,
                   handles, num_handles, session_claude_id, now, closing,
                   reaper, user, close_ret>>
    /\ UNCHANGED <<portVars, fwVars, bgVars, creators, logout>>

\* ensure_client_connected, lines 221-228: connect() has returned (the flag
\* and last_active are written under the agent id) or raised (nothing is
\* written); then query() is sent.
ReqConnectDone(r) ==
    /\ req[r].pc = "connecting"
    /\ \E ok \in BOOLEAN :
         LET a == AgentOf(r)
             c == req[r].conn
         IN IF ok
            THEN /\ handles' = [handles EXCEPT ![c].proc = "running",
                        ![c].conv = IF handles[c].resume # None
                                    THEN handles[c].resume ELSE FreshConv(c)]
                 /\ client_connected' = [client_connected EXCEPT ![a] = "true"]
                 /\ agent_last_active' = Bumped(agent_last_active, a, now)
            ELSE UNCHANGED <<handles, client_connected, agent_last_active>>
    /\ req' = [req EXCEPT ![r].pc = "exch", ![r].conn = 0, ![r].attempts = @ + 1]
    /\ UNCHANGED <<clients, clients_keys, client_options, num_handles,
                   agent_locks, session_claude_id, now, closing, reaper, user,
                   close_ret>>
    /\ UNCHANGED <<portVars, fwVars, bgVars, creators, logout>>

\* _process_ai_response, lines 635-767: query() and the receive_response loop
\* end.  "ok": the result message arrived and the conversation id is stored.
\* "fatal" / "other": an exception whose text matches / does not match the
\* terminal-process patterns ("terminated process", "exit code", ...: the CLI
\* process of the client is gone); the lock is released by `async with`.
ReqExchangeDone(r) ==
    /\ req[r].pc = "exch"
    /\ \E res \in {"ok", "fatal", "other"} :
         LET a == AgentOf(r)
             c == req[r].client
             H0 == IF res = "fatal" /\ handles[c].proc = "running"
                   THEN [handles EXCEPT ![c].proc = "dead"] ELSE handles
         IN /\ res = "ok" => handles[c].proc = "running"
            /\ agent_locks' = [agent_locks EXCEPT ![a] = None]
            /\ IF res = "ok"
               THEN /\ req' = [req EXCEPT ![r].pc = "done",
                                          ![r].outcome = "completed"]
                    /\ session_claude_id' = [session_claude_id EXCEPT
                           ![SessionOf(r)] = handles[c].conv]
                    /\ UNCHANGED <<regVars, handles, num_handles, closing>>
               ELSE IF res = "fatal" /\ ~req[r].retry
               THEN IF clients[a] # 0
                    THEN /\ req' = [req EXCEPT ![r].pc = "closing",
                                ![r].recov = @ + 1, ![r].fatal1 = TRUE]
                         /\ closing' = [closing EXCEPT ![r] =
                                [st |-> "disc", h |-> clients[a], a |-> a,
                                 cont |-> "rec"]]
                         /\ handles' = H0
                         /\ UNCHANGED <<regVars, num_handles,
                                        session_claude_id>>
                    ELSE LET rq == [req[r] EXCEPT !.recov = @ + 1,
                                                  !.fatal1 = TRUE]
                         IN \E ok \in BOOLEAN :
                              LET cr == Created(Reg, H0, num_handles, a,
                                                None, ok)
                              IN /\ SetReg(cr.R)
                                 /\ handles' = cr.H
                                 /\ num_handles' = cr.n
                                 /\ session_claude_id' = [session_claude_id
                                        EXCEPT ![SessionOf(r)] = None]
                                 /\ req' = [req EXCEPT ![r] =
                                        [rq EXCEPT !.pc = "kb", !.retry = TRUE,
                                            !.tok = None, !.client = 0,
                                            !.e_old = 0, !.e_cur = None,
                                            !.e_ret = None]]
                                 /\ UNCHANGED closing
               ELSE /\ req' = [req EXCEPT ![r].pc = "done",
                                          ![r].outcome = "error",
                                          ![r].errs = @ + 1]
                    /\ handles' = H0
                    /\ UNCHANGED <<regVars, num_handles, session_claude_id,
                                   closing>>
    /\ UNCHANGED <<now, reaper, user, close_ret>>
    /\ UNCHANGED <<portVars, fwVars, bgVars, creators, logout>>

\* _idle_agent_cleanup_task, lines 32-39: asyncio.sleep returns, the ids are
\* snapshotted and the loop runs up to its first suspending close.
ReaperTick ==
    /\ reaper.pc \in {"sleep", "retry"}
    /\ LET ids == clients_keys
           rp == [reaper EXCEPT !.tick = now, !.idle_seen = {}, !.left = {},
                      !.idle_at_tick = {a \in Agents :
                          /\ clients[a] # 0
                          /\ agent_last_active[a] # -1
                          /\ now - agent_last_active[a] > IDLE_TIMEOUT_SECONDS}]
       IN ReaperGoesOn(rp, ids, Reg)
    /\ UNCHANGED <<regVars, handles, num_handles, agent_locks,
                   session_claude_id, now, user, close_ret>>
    /\ UNCHANGED <<portVars, fwVars, bgVars, creators, logout>>

\* user_api.login -> initialize_user_agents, lines 373-384: an agent of the
\* owner without client gets one (no resume token).
UserLogin ==
    /\ user = "idle"
    /\ \E a \in Agents, ok \in BOOLEAN :
         /\ clients[a] = 0
         /\ LET cr == Created(Reg, handles, num_handles, a, None, ok)
            IN /\ SetReg(cr.R)
               /\ handles' = cr.H
               /\ num_handles' = cr.n
    /\ UNCHANGED <<agent_locks, session_claude_id, now, req, closing, reaper,
                   user, close_ret>>
    /\ UNCHANGED <<portVars, fwVars, bgVars, creators, logout>>

\* user_api.logout -> logout_user_agents, lines 414-421: close_agent_client on
\* an agent of the owner; a registered one suspends in disconnect().
UserLogout ==
    /\ user = "idle"
    /\ \E a \in Agents :
         /\ clients[a] # 0
         /\ closing' = [closing EXCEPT !["user"] =
                [st |-> "disc", h |-> clients[a], a |-> a, cont |-> "user"]]
    /\ user' = "closing"
    /\ UNCHANGED <<regVars, handles, num_handles, agent_locks,
                   session_claude_id, now, req, reaper, close_ret>>
    /\ UNCHANGED <<portVars, fwVars, bgVars, creators, logout>>

\* user_api.logout -> logout_user_agents(owner_id), lines 392-430: the ai
\* users of the owner are fetched and close_agent_client is awaited on each
\* in turn, up to the first close that suspends.
LogoutCall ==
    /\ user = "idle"
    /\ \E users \in UsersTables, owner_id \in Owners :
         \E ai_users \in RowOrders(OwnedAgents(users, owner_id)) :
             PassGoesOn([IdlePass EXCEPT !.kind = "logout",
                            !.owned = {a \in Agents : users[a] = owner_id},
                            !.ids = Range(ai_users)],
                        ai_users, Reg)
    /\ UNCHANGED <<regVars, handles, num_handles, agent_locks,
                   session_claude_id, now, req, reaper, creators, close_ret>>
    /\ UNCHANGED <<portVars, fwVars, bgVars>>

\* close_all_clients, lines 280-295: agent_ids = list(self._clients.keys()),
\* and close_agent_client is awaited on each in turn.
CloseAllCall ==
    /\ user = "idle"
    /\ PassGoesOn([IdlePass EXCEPT !.kind = "all",
                                   !.ids = Range(clients_keys)],
                  clients_keys, Reg)
    /\ UNCHANGED <<regVars, handles, num_handles, agent_locks,
                   session_claude_id, now, req, reaper, creators, close_ret>>
    /\ UNCHANGED <<portVars, fwVars, bgVars>>

\* initialize_agent_client(agent_id, agent_name, work_dir) called directly
\* (agent_manager.py line 491): create_agent_client, lines 88-91, closes the
\* client registered under the id first; with no client registered it
\* constructs and registers one at once.
CreateCall(k) ==
    /\ creators[k] = "idle"
    /\ LET a == "a1"
       IN IF clients[a] # 0
          THEN /\ closing' = [closing EXCEPT ![k] =
                      [st |-> "disc", h |-> clients[a], a |-> a, cont |-> "cre"]]
               /\ creators' = [creators EXCEPT ![k] = "closing"]
               /\ UNCHANGED <<regVars, handles, num_handles>>
          ELSE \E ok \in BOOLEAN :
                 LET cr == Created(Reg, handles, num_handles, a, None, ok)
                 IN /\ SetReg(cr.R)
                    /\ handles' = cr.H
                    /\ num_handles' = cr.n
                    /\ creators' = [creators EXCEPT ![k] = "done"]
                    /\ UNCHANGED closing
    /\ UNCHANGED <<agent_locks, session_claude_id, now, req, reaper, user,
                   close_ret>>
    /\ UNCHANGED <<portVars, fwVars, bgVars, logout>>

\* A mutant of the loop: the handler of the top-level except ends the task.
BackoffNextDead == "dead"

\* _idle_agent_cleanup_task, lines 62-65 and 30-32: after the except clause's
\* asyncio.sleep(30) the while loop goes round to asyncio.sleep(interval).
\* "retry" is that sleep when the iteration before it raised.
BackoffNext == "retry"

\* _idle_agent_cleanup_task, lines 32-39 and 62-65: asyncio.sleep returns and
\* the sweep body raises before its first close; `except Exception` logs and
\* suspends in asyncio.sleep(30).  A raise later in the body reaches the same
\* handler.
ReaperFault ==
    /\ reaper.pc \in {"sleep", "retry"}
    /\ reaper' = [reaper EXCEPT !.pc = "backoff"]
    /\ UNCHANGED <<regVars, handles, num_handles, agent_locks,
                   session_claude_id, now, req, closing, user, close_ret>>
    /\ UNCHANGED <<portVars, fwVars, bgVars, creators, logout>>

\* asyncio.sleep(30) of the except clause returns
ReaperBackoffDone ==
    /\ reaper.pc = "backoff"
    /\ reaper' = [reaper EXCEPT !.pc = BackoffNext]
    /\ UNCHANGED <<regVars, handles, num_handles, agent_locks,
                   session_claude_id, now, req, closing, user, close_ret>>
    /\ UNCHANGED <<portVars, fwVars, bgVars, creators, logout>>

\* stop_background_tasks, lines 89-95: task.cancel() raises CancelledError at
\* the await the task is suspended in (a sleep, or the close of a sweep,
\* which is abandoned); it is not an Exception, the loop breaks at line 59-61
\* or the error leaves the except clause, and the task ends.
ReaperCancel ==
    /\ reaper.pc \in {"sleep", "retry", "backoff", "sweep"}
    /\ reaper' = [reaper EXCEPT !.pc = "stopped"]
    /\ closing' = [closing EXCEPT !["reaper"] = NoClose]
    /\ UNCHANGED <<regVars, handles, num_handles, agent_locks,
                   session_claude_id, now, req, user, close_ret>>
    /\ UNCHANGED <<portVars, fwVars, bgVars, creators, logout>>

\* Time passes.
Tick ==
    /\ now < MaxTime
    /\ now' = now + 1
    /\ UNCHANGED <<regVars, handles, num_handles, agent_locks,
                   session_claude_id, req, closing, reaper, user, close_ret>>
    /\ UNCHANGED <<portVars, fwVars, bgVars, creators, logout>>

NoCloseRet == [task |-> None, gone |-> TRUE, torn |-> {}]

\* ---------------------------------------------------------------------
\* The per-conversation send queue of chat_api.
\* ---------------------------------------------------------------------

\* How many messages one key receives.
MaxMsgs == 3

\* The conversations that receive messages: one agent, both chat sessions.
QueueAgents == {"a1"}

_queue_key(agent_id, session_id) == agent_id \o ":" \o session_id

QueueKeys == {_queue_key(a, s) : a \in QueueAgents, s \in Sessions}

\* A message is named by its position in the order of the appends of its key.
Msgs == 1..MaxMsgs

\* "\n".join(messages): the messages of the list, in list order, as one
\* request.
Combined(messages) == messages

NoTask == [pc |-> "none", messages |-> <<>>]

InitQueueVars ==
    /\ pending_message_queues = [k \in QueueKeys |-> <<>>]
    /\ queue_processing_flags = [k \in QueueKeys |-> FALSE]
    /\ pq = [k \in QueueKeys |-> NoTask]
    /\ handed = [k \in QueueKeys |-> <<>>]
    /\ next_msg = [k \in QueueKeys |-> 0]

\* send_message from the append to the create_task: no await in between.
SendMessage(key) ==
    /\ next_msg[key] < MaxMsgs
    /\ next_msg' = [next_msg EXCEPT ![key] = @ + 1]
    /\ pending_message_queues' =
           [pending_message_queues EXCEPT ![key] = Append(@, next_msg[key] + 1)]
    /\ IF ~queue_processing_flags[key]
       THEN /\ queue_processing_flags' = [queue_processing_flags EXCEPT ![key] = TRUE]
            /\ pq' = [pq EXCEPT ![key] = [pc |-> "created", messages |-> <<>>]]
       ELSE UNCHANGED <<queue_processing_flags, pq>>
    /\ UNCHANGED handed

\* _process_queue at the head of its while loop: either it takes the whole
\* list and suspends in _process_ai_response, or it leaves through finally.
LoopHead(key) ==
    IF pending_message_queues[key] # <<>>
    THEN /\ pending_message_queues' = [pending_message_queues EXCEPT ![key] = <<>>]
         /\ handed' = [handed EXCEPT ![key] = Append(@, Combined(pending_message_queues[key]))]
         /\ pq' = [pq EXCEPT ![key] = [pc |-> "await",
                                       messages |-> pending_message_queues[key]]]
         /\ UNCHANGED queue_processing_flags
    ELSE /\ queue_processing_flags' = [queue_processing_flags EXCEPT ![key] = FALSE]
         /\ pq' = [pq EXCEPT ![key] = NoTask]
         /\ UNCHANGED <<pending_message_queues, handed>>

\* The finally clause when the exception of _process_ai_response leaves the
\* loop.
LeaveByException(key) ==
    /\ queue_processing_flags' = [queue_processing_flags EXCEPT ![key] = FALSE]
    /\ pq' = [pq EXCEPT ![key] = NoTask]
    /\ UNCHANGED <<pending_message_queues, handed>>

\* The results of awaiting _process_ai_response: it returns, or the
\* save_message call of its except handler raises.
AwaitResults == {"returned", "raised"}

\* The event loop runs the task created by send_message for the first time.
QueueRun(key) ==
    /\ pq[key].pc = "created"
    /\ LoopHead(key)
    /\ UNCHANGED next_msg

\* The await of _process_ai_response ends.
QueueResume(key) ==
    /\ pq[key].pc = "await"
    /\ \E result \in AwaitResults :
           IF result = "raised" THEN LeaveByException(key) ELSE LoopHead(key)
    /\ UNCHANGED next_msg



\* ---------------------------------------------------------------------
\* Scheduled tasks: the task_custom_mcp table, the scheduler's jobs and the
\* _execute_task runs.
\* ---------------------------------------------------------------------

TaskIds == {"t1", "t2"}
ScheduleTypes == {"cron", "date"}

NoRow == [status |-> "none", schedule_type |-> None, last_run_at |-> FALSE,
          next_run_at |-> FALSE]

\* The statuses schedule_task and _execute_task skip.
SkippedStatuses == {"cancelled", "completed", "failed"}

\* The statuses _load_and_schedule_tasks selects.
LoadedStatuses == {"pending", "active"}

NoExec == [pc |-> "idle", schedule_type |-> None]

InitSchedVars ==
    /\ task_custom_mcp = [t \in TaskIds |-> NoRow]
    /\ scheduler_jobs = {}
    /\ scheduler_running = FALSE
    /\ execs = [t \in TaskIds |-> NoExec]

\* _update_status: the status and last_run_at of the row, when there is one.
_update_status(rows, task_id, status) ==
    IF rows[task_id] = NoRow THEN rows
    ELSE [rows EXCEPT ![task_id].status = status, ![task_id].last_run_at = TRUE]

\* _mark_task_failed.
_mark_task_failed(rows, task_id) ==
    IF rows[task_id] = NoRow THEN rows
    ELSE [rows EXCEPT ![task_id].status = "failed"]

\* _refresh_next_run: next_run_at from the job when there is one, else NULL,
\* and status 'active' in either case.
_refresh_next_run(rows, jobs, task_id) ==
    IF rows[task_id] = NoRow THEN rows
    ELSE [rows EXCEPT ![task_id].status = "active",
                      ![task_id].next_run_at = (task_id \in jobs)]

\* schedule_task: what it does to the rows and to the jobs.
ScheduleSkips(rows, task_id) ==
    rows[task_id] = NoRow \/ rows[task_id].status \in SkippedStatuses

JobsAfterSchedule(rows, jobs, task_id) ==
    IF ScheduleSkips(rows, task_id) THEN jobs ELSE jobs \cup {task_id}

RowsAfterSchedule(rows, jobs, task_id) ==
    IF ScheduleSkips(rows, task_id) THEN rows
    ELSE _refresh_next_run(rows, JobsAfterSchedule(rows, jobs, task_id), task_id)

\* add_task for one task: the INSERT with status 'pending', then schedule_task.
AddTask(task_id) ==
    /\ task_custom_mcp[task_id] = NoRow
    /\ \E schedule_type \in ScheduleTypes :
           LET inserted == [task_custom_mcp EXCEPT ![task_id] =
                                [status |-> "pending", schedule_type |-> schedule_type,
                                 last_run_at |-> FALSE, next_run_at |-> FALSE]]
           IN /\ scheduler_jobs' = JobsAfterSchedule(inserted, scheduler_jobs, task_id)
              /\ task_custom_mcp' = RowsAfterSchedule(inserted, scheduler_jobs, task_id)
    /\ UNCHANGED <<scheduler_running, execs>>

\* _load_and_schedule_tasks: schedule_task for every row the SELECT returns.
_load_and_schedule_tasks ==
    LET loaded == {t \in TaskIds : task_custom_mcp[t].status \in LoadedStatuses}
    IN /\ scheduler_jobs' = scheduler_jobs \cup loaded
       /\ task_custom_mcp' =
              [t \in TaskIds |->
                  IF t \in loaded
                  THEN RowsAfterSchedule(task_custom_mcp, scheduler_jobs, t)[t]
                  ELSE task_custom_mcp[t]]

\* start_task_scheduler.
StartTaskScheduler ==
    /\ ~scheduler_running
    /\ scheduler_running' = TRUE
    /\ _load_and_schedule_tasks
    /\ UNCHANGED execs

\* stop_task_scheduler: shutdown(wait=False) leaves the runs in flight alone.
StopTaskScheduler ==
    /\ scheduler_running
    /\ scheduler_running' = FALSE
    /\ UNCHANGED <<task_custom_mcp, scheduler_jobs, execs>>

\* cancel_task: remove_job, a missing job is ignored.
cancel_task(jobs, task_id) == jobs \ {task_id}

\* cancel_task_tool: the job is removed and the row marked, with no await in
\* between.
CancelTaskTool(task_id) ==
    /\ task_custom_mcp[task_id] # NoRow
    /\ scheduler_jobs' = cancel_task(scheduler_jobs, task_id)
    /\ task_custom_mcp' = [task_custom_mcp EXCEPT ![task_id].status = "cancelled"]
    /\ UNCHANGED <<scheduler_running, execs>>

\* The scheduler fires the job of a task (max_instances=1): _execute_task up
\* to its await of _dispatch_task. A date job leaves the job store when it
\* fires.
ExecuteStart(task_id) ==
    /\ scheduler_running
    /\ task_id \in scheduler_jobs
    /\ execs[task_id].pc = "idle"
    /\ LET task == task_custom_mcp[task_id]
           jobs == IF task.schedule_type = "date"
                   THEN scheduler_jobs \ {task_id} ELSE scheduler_jobs
       IN \E too_frequent \in {FALSE} \cup
                  (IF task.schedule_type = "cron" /\ task.last_run_at
                   THEN {TRUE} ELSE {}) :
              IF task = NoRow \/ task.status \in SkippedStatuses
              THEN /\ scheduler_jobs' = jobs
                   /\ UNCHANGED <<task_custom_mcp, execs>>
              ELSE IF too_frequent
              THEN /\ scheduler_jobs' = jobs
                   /\ task_custom_mcp' = _refresh_next_run(task_custom_mcp, jobs, task_id)
                   /\ UNCHANGED execs
              ELSE /\ scheduler_jobs' = jobs
                   /\ task_custom_mcp' = _update_status(task_custom_mcp, task_id, "running")
                   /\ execs' = [execs EXCEPT ![task_id] =
                                    [pc |-> "dispatch",
                                     schedule_type |-> task.schedule_type]]
    /\ UNCHANGED scheduler_running

\* The await of _dispatch_task ends: the run writes the outcome.
ExecuteResume(task_id) ==
    /\ execs[task_id].pc = "dispatch"
    /\ \E dispatched \in BOOLEAN :
           IF ~dispatched
           THEN /\ task_custom_mcp' = _mark_task_failed(task_custom_mcp, task_id)
                /\ UNCHANGED scheduler_jobs
           ELSE IF execs[task_id].schedule_type = "date"
           THEN /\ task_custom_mcp' = _update_status(task_custom_mcp, task_id, "completed")
                /\ scheduler_jobs' = cancel_task(scheduler_jobs, task_id)
           ELSE /\ task_custom_mcp' =
                       _refresh_next_run(
                           _update_status(task_custom_mcp, task_id, "active"),
                           scheduler_jobs, task_id)
                /\ UNCHANGED scheduler_jobs
    /\ execs' = [execs EXCEPT ![task_id] = NoExec]
    /\ UNCHANGED scheduler_running

InitSessVars ==
    /\ clients = [a \in Agents |-> 0]
    /\ clients_keys = <<>>
    /\ client_options = [a \in Agents |-> 0]
    /\ client_connected = [a \in Agents |-> "absent"]
    /\ agent_last_active = [a \in Agents |-> -1]
    /\ handles = [h \in Handles |-> NoHandle]
    /\ num_handles = 0
    /\ agent_locks = [a \in Agents |-> None]
    /\ session_claude_id \in {[s1 |-> x, s2 |-> y] :
                                 x \in {None, "X"}, y \in {None, "Y"}}
    /\ now = 0
    /\ req = [r \in Reqs |-> IdleReq]
    /\ closing = [t \in Tasks |-> NoClose]
    /\ reaper = IdleReaper
    /\ user = "idle"
    /\ creators = [k \in Creators |-> "idle"]
    /\ close_ret = NoCloseRet
    /\ logout = IdlePass
    /\ InitQueueVars
    /\ InitSchedVars

Init == InitPortVars /\ InitSessVars /\ InitFwVars

\* Two chat sessions of one agent, each processing a message.
NextChat ==
    \/ \E r \in Reqs : ReqStart(r)
    \/ \E r \in Reqs : ReqEnsure(r)
    \/ \E r \in Reqs : ReqLock(r)
    \/ \E r \in Reqs : ReqConnectDone(r)
    \/ \E r \in Reqs : ReqExchangeDone(r)
    \/ \E r \in Reqs : CloseDisconnectDone(r)
    \/ \E r \in Reqs : CloseKillDone(r)

SpecChat == Init /\ [][NextChat]_vars

\* Only the first chat session is in use.
InitOneChat ==
    /\ Init
    /\ session_claude_id["s2"] = None

\* One chat session, the idle reaper, the owner's login, and time.
SweepTasks == {"r1", "reaper"}

NextSweep ==
    \/ ReqStart("r1")
    \/ ReqEnsure("r1")
    \/ ReqLock("r1")
    \/ ReqConnectDone("r1")
    \/ ReqExchangeDone("r1")
    \/ \E t \in SweepTasks : CloseDisconnectDone(t)
    \/ \E t \in SweepTasks : CloseKillDone(t)
    \/ ReaperTick
    \/ UserLogin
    \/ Tick

SpecSweep == InitOneChat /\ [][NextSweep]_vars

\* The same with the owner's logout as a further closer.
ReaperTasks == {"r1", "reaper", "user"}

NextReaper ==
    \/ ReqStart("r1")
    \/ ReqEnsure("r1")
    \/ ReqLock("r1")
    \/ ReqConnectDone("r1")
    \/ ReqExchangeDone("r1")
    \/ \E t \in ReaperTasks : CloseDisconnectDone(t)
    \/ \E t \in ReaperTasks : CloseKillDone(t)
    \/ ReaperTick
    \/ UserLogin
    \/ UserLogout
    \/ Tick

SpecReaper == InitOneChat /\ [][NextReaper]_vars

\* One chat session and two direct initialize_agent_client calls for its agent.
CreateTasks == {"r1"} \cup Creators

NextCreate ==
    \/ ReqStart("r1")
    \/ ReqEnsure("r1")
    \/ ReqLock("r1")
    \/ ReqConnectDone("r1")
    \/ ReqExchangeDone("r1")
    \/ \E k \in Creators : CreateCall(k)
    \/ \E t \in CreateTasks : CloseDisconnectDone(t)
    \/ \E t \in CreateTasks : CloseKillDone(t)

SpecCreate == InitOneChat /\ [][NextCreate]_vars

\* One chat session, the owner's login, and the passes that close a tenant's
\* sessions (logout) or all sessions (shutdown).
PassTasks == {"r1", "user"}

NextLogout ==
    \/ ReqStart("r1")
    \/ ReqEnsure("r1")
    \/ ReqLock("r1")
    \/ ReqConnectDone("r1")
    \/ ReqExchangeDone("r1")
    \/ \E t \in PassTasks : CloseDisconnectDone(t)
    \/ \E t \in PassTasks : CloseKillDone(t)
    \/ UserLogin
    \/ LogoutCall
    \/ CloseAllCall

SpecLogout == InitOneChat /\ [][NextLogout]_vars

\* The reaper loop with a sweep body that can raise, the owner's login, time,
\* and the cancellation of the task.  The sessions are registered by the
\* login and never connected, so a close has no CLI process to wait for.
\* Every await of the loop returns: the two sleeps and the SDK calls of a
\* close.
NextLoop ==
    \/ UserLogin
    \/ Tick
    \/ ReaperTick
    \/ ReaperFault
    \/ ReaperBackoffDone
    \/ ReaperCancel
    \/ CloseDisconnectDone("reaper")

SpecLoop ==
    /\ InitOneChat
    /\ [][NextLoop]_vars
    /\ WF_vars(ReaperTick \/ ReaperFault)
    /\ WF_vars(ReaperBackoffDone)
    /\ WF_vars(CloseDisconnectDone("reaper"))

\* The senders of the conversations and the queue processors.
NextQueue ==
    \/ \E key \in QueueKeys : SendMessage(key) /\ UNCHANGED <<portVars, fwVars, agentVars, schedVars>>
    \/ \E key \in QueueKeys : QueueRun(key) /\ UNCHANGED <<portVars, fwVars, agentVars, schedVars>>
    \/ \E key \in QueueKeys : QueueResume(key) /\ UNCHANGED <<portVars, fwVars, agentVars, schedVars>>

SpecQueue == InitOneChat /\ [][NextQueue]_vars

\* The task tools, the scheduler's start and stop, and the runs of the jobs.
NextTasks ==
    \/ \E t \in TaskIds : AddTask(t) /\ UNCHANGED <<portVars, fwVars, agentVars, queueVars>>
    \/ \E t \in TaskIds : CancelTaskTool(t) /\ UNCHANGED <<portVars, fwVars, agentVars, queueVars>>
    \/ \E t \in TaskIds : ExecuteStart(t) /\ UNCHANGED <<portVars, fwVars, agentVars, queueVars>>
    \/ \E t \in TaskIds : ExecuteResume(t) /\ UNCHANGED <<portVars, fwVars, agentVars, queueVars>>
    \/ StartTaskScheduler /\ UNCHANGED <<portVars, fwVars, agentVars, queueVars>>
    \/ StopTaskScheduler /\ UNCHANGED <<portVars, fwVars, agentVars, queueVars>>

SpecTasks == InitOneChat /\ [][NextTasks]_vars

\* Concurrent ensure_user_settings calls on the shared table.
InitPorts ==
    /\ Init
    /\ session_claude_id = [s \in Sessions |-> None]

NextPorts ==
    \/ \E c \in Callers : PSelect(c) /\ UNCHANGED <<sessVars, fwVars>>
    \/ \E c \in Callers : PLock(c) /\ UNCHANGED <<sessVars, fwVars>>
    \/ \E c \in Callers : PCompute(c) /\ UNCHANGED <<sessVars, fwVars>>
    \/ \E c \in Callers : PInsert(c) /\ UNCHANGED <<sessVars, fwVars>>
    \/ \E c \in Callers : PReturn(c) /\ UNCHANGED <<sessVars, fwVars>>

SpecPorts == InitPorts /\ [][NextPorts]_vars

\* Tool calls of agent sessions under every process configuration.
InitHooks ==
    /\ InitPortVars
    /\ InitSessVars
    /\ session_claude_id = [s \in Sessions |-> None]
    /\ env \in Envs
    /\ hk = IdleHook
    /\ wc = IdleWc
    /\ os_state = FreshHost(TRUE, TRUE)
    /\ pv = [c \in ProvCallers |-> IdleProv]

NextHooks ==
    \/ ToolCall /\ UNCHANGED <<portVars, sessVars, os_state, pv>>
    \/ PreToolUse /\ UNCHANGED <<portVars, sessVars, os_state, pv>>
    \/ CanUseTool /\ UNCHANGED <<portVars, sessVars, os_state, pv>>
    \/ ToolReturn /\ UNCHANGED <<portVars, sessVars, os_state, pv>>

SpecHooks == InitHooks /\ [][NextHooks]_vars

\* The wrapper's commands under _is_allowed_wrapped_command and under the two
\* hooks, one command at a time.
NextWrapped ==
    \/ hk.pc = "idle" /\ WcWrap /\ UNCHANGED <<portVars, sessVars, os_state, pv>>
    \/ hk.pc = "idle" /\ WcSpoof /\ UNCHANGED <<portVars, sessVars, os_state, pv>>
    \/ WcCheck /\ UNCHANGED <<portVars, sessVars, os_state, pv>>
    \/ WcReturn /\ UNCHANGED <<portVars, sessVars, os_state, pv>>
    \/ wc.pc = "idle" /\ ToolCall /\ UNCHANGED <<portVars, sessVars, os_state, pv>>
    \/ PreToolUse /\ UNCHANGED <<portVars, sessVars, os_state, pv>>
    \/ CanUseTool /\ UNCHANGED <<portVars, sessVars, os_state, pv>>
    \/ ToolReturn /\ UNCHANGED <<portVars, sessVars, os_state, pv>>

SpecWrapped == InitPorts /\ [][NextWrapped]_vars

\* Logins that provision a tenant, on hosts with and without nft and a root
\* block device.
InitProv ==
    /\ InitPortVars
    /\ InitSessVars
    /\ session_claude_id = [s \in Sessions |-> None]
    /\ env \in {e \in Envs : e.cwd = AppDir(e.host) /\ e.hook_matcher}
    /\ hk = IdleHook
    /\ wc = IdleWc
    /\ os_state \in {FreshHost(n, d) : n \in BOOLEAN, d \in BOOLEAN}
    /\ pv = [c \in ProvCallers |-> IdleProv]

NextProv ==
    \/ \E c \in ProvCallers : PvStart(c) /\ UNCHANGED <<portVars, sessVars>>
    \/ \E c \in ProvCallers : PvIdLookup(c) /\ UNCHANGED <<portVars, sessVars>>
    \/ \E c \in ProvCallers : PvMkBase(c) /\ UNCHANGED <<portVars, sessVars>>
    \/ \E c \in ProvCallers : PvUseradd(c) /\ UNCHANGED <<portVars, sessVars>>
    \/ \E c \in ProvCallers : PvMkdir(c) /\ UNCHANGED <<portVars, sessVars>>
    \/ \E c \in ProvCallers : PvChown(c) /\ UNCHANGED <<portVars, sessVars>>
    \/ \E c \in ProvCallers : PvChmod(c) /\ UNCHANGED <<portVars, sessVars>>
    \/ \E c \in ProvCallers : PvCaps(c) /\ UNCHANGED <<portVars, sessVars>>
    \/ \E c \in ProvCallers : PvIoLimits(c) /\ UNCHANGED <<portVars, sessVars>>
    \/ \E c \in ProvCallers : PvPortRules(c) /\ UNCHANGED <<portVars, sessVars>>
    \/ \E c \in ProvCallers : PvReturn(c) /\ UNCHANGED <<portVars, sessVars>>

SpecProv == InitProv /\ [][NextProv]_vars

\* The logins of one tenant: every call provisions the same user id, so each
\* call after the first is a re-run, alone or overlapping an earlier one.
RerunTenant == <<"A", "1">>

NextProvTenant ==
    \/ \E c \in ProvCallers :
          PvStart(c) /\ pv'[c].user_id = RerunTenant
                     /\ UNCHANGED <<portVars, sessVars>>
    \/ \E c \in ProvCallers : PvIdLookup(c) /\ UNCHANGED <<portVars, sessVars>>
    \/ \E c \in ProvCallers : PvMkBase(c) /\ UNCHANGED <<portVars, sessVars>>
    \/ \E c \in ProvCallers : PvUseradd(c) /\ UNCHANGED <<portVars, sessVars>>
    \/ \E c \in ProvCallers : PvMkdir(c) /\ UNCHANGED <<portVars, sessVars>>
    \/ \E c \in ProvCallers : PvChown(c) /\ UNCHANGED <<portVars, sessVars>>
    \/ \E c \in ProvCallers : PvChmod(c) /\ UNCHANGED <<portVars, sessVars>>
    \/ \E c \in ProvCallers : PvCaps(c) /\ UNCHANGED <<portVars, sessVars>>
    \/ \E c \in ProvCallers : PvIoLimits(c) /\ UNCHANGED <<portVars, sessVars>>
    \/ \E c \in ProvCallers : PvPortRules(c) /\ UNCHANGED <<portVars, sessVars>>
    \/ \E c \in ProvCallers : PvReturn(c) /\ UNCHANGED <<portVars, sessVars>>

SpecProvTenant == InitProv /\ [][NextProvTenant]_vars

(***************************************************************************)
(* PROPERTIES                                                              *)
(***************************************************************************)

\* C1: under any interleaving of concurrent first-time allocation calls, the
\* port ranges recorded for two distinct tenants never overlap.
C1_PortRangesDisjoint ==
    \A r1 \in user_set, r2 \in user_set :
        r1.user_id # r2.user_id =>
            \/ r1.port_end < r2.port_start
            \/ r2.port_end < r1.port_start

\* Two first-time calls for different tenants raced (one waited for the table
\* lock while the other held it) and both tenants now have a range.
C1_Witness ==
    /\ \E r1 \in user_set, r2 \in user_set : r1.user_id # r2.user_id
    /\ \E c1 \in Callers, c2 \in Callers :
         /\ pcall[c1].pc = "done" /\ pcall[c2].pc = "want_lock"
         /\ pcall[c1].ret = <<USER_PORT_POOL_START + USER_PORT_BLOCK_SIZE,
                              USER_PORT_POOL_START + 2 * USER_PORT_BLOCK_SIZE - 1>>

\* The requests of one agent that are between the lock's acquire and release:
\* in connect() of ensure_client_connected or in query / receive_response.
InRegion(a) ==
    {r \in Reqs : AgentOf(r) = a /\ req[r].pc \in {"connecting", "exch"}}

\* C2: for one agent at most one request is inside the region
\* "ensure connected, send query, stream the response"; a second request
\* sends its query only after the first has left the region.
C2_OneRequestInRegion ==
    \A a \in Agents : Cardinality(InRegion(a)) <= 1

\* One request streams while the other, holding its client, waits for the lock.
C2_Witness ==
    /\ req["r1"].pc = "exch"
    /\ req["r2"].pc = "lockwait"
    /\ agent_locks["a1"] = "r1"

\* C3: a message whose first exchange fails with a fatal transport error is
\* recovered once (close, recreate) and retried once: when its processing has
\* ended there was one recovery, there were two exchange attempts and no
\* more, and unless the retry completed the failure was surfaced to the user
\* once.
C3_FatalRetriedOnce ==
    \A r \in Reqs :
        req[r].pc = "done" =>
            /\ req[r].recov <= 1
            /\ req[r].attempts <= 2
            /\ req[r].errs <= 1
            /\ req[r].fatal1 =>
                   /\ req[r].recov = 1
                   /\ req[r].attempts = 2
                   /\ req[r].outcome = "completed" \/ req[r].errs = 1

\* C4: lifecycle transitions of a session are serialized by the agent's lock:
\* while a request holds the lock, no other task is closing the agent's
\* session.
C4_LifecycleUnderLock ==
    \A t \in Tasks :
        closing[t].st # "none" =>
            agent_locks[closing[t].a] \in {None, t}

\* C7: create_agent_client on a registered id tears the existing handle down
\* before the new handle is registered: a handle that a new handle replaces
\* in the registry has gone through disconnect, close and the process kill.
C7_CreateTearsDownExisting ==
    [][\A a \in Agents :
          (clients[a] # 0 /\ clients'[a] # 0 /\ clients'[a] # clients[a])
              => TeardownSteps \subseteq handles'[clients[a]].torn]_vars

\* The requests whose _ensure_agent_client found a client registered, and
\* have the client it returned.
Ensured ==
    {r \in Reqs : /\ req[r].pc \in {"lockwait", "connecting", "exch"}
                  /\ req[r].e_old # 0}

C5_IdleAbsentAfterSweep ==
    reaper.pc = "sleep" => reaper.left = {}

\* C5, amended: every session the sweep finds registered and idle longer
\* than the timeout (tick time minus last_active) when it reaches it is
\* closed by that tick: the handle it had then is not registered when the
\* sweep has finished.
C5_IdleHandlesClosedBySweep ==
    reaper.pc = "sleep" =>
        \A h \in reaper.idle_seen : \A a \in Agents : clients[a] # h

\* A sweep has finished that found a session idle and closed it, and the id
\* is registered again with a handle created during the sweep.
C5_Witness ==
    /\ reaper.pc = "sleep"
    /\ \E h \in reaper.idle_seen :
         /\ TeardownSteps \subseteq handles[h].torn
         /\ clients[handles[h].agent] \notin {0, h}

\* C6: whenever the reaper has issued a close, the closed session's last
\* activity was older than the configured timeout when the close was issued.
C6_ReaperClosesOnlyIdle ==
    closing["reaper"].st # "none" =>
        reaper.issued_idle > IDLE_TIMEOUT_SECONDS

\* The reaper's close is in flight while a request is using the same session.
C6_Witness ==
    /\ closing["reaper"].st # "none"
    /\ closing["reaper"].a = "a1"
    /\ req["r1"].pc = "exch"
    /\ req["r1"].client = closing["reaper"].h

\* C9: close_agent_client on a registered session returns with every
\* teardown sub-step attempted and with the id gone from all four maps.
C9_CloseDeregisters ==
    close_ret.task # None =>
        /\ close_ret.gone
        /\ TeardownSteps \subseteq close_ret.torn

\* C10: a request that was in flight on a session while the reaper closed it
\* ends completed or with an error recorded for the user, and never ends
\* holding the agent's lock.
C10_RaceEndsCompletedOrError ==
    \A r \in Reqs :
        (req[r].raced /\ req[r].pc = "done") =>
            /\ req[r].outcome \in {"completed", "error"}
            /\ agent_locks[AgentOf(r)] # r

\* C19: a tenant has at most one port block and it is create-once: after every
\* step no tenant has two rows, no committed row is removed or changed, and
\* every ensure_user_settings call that has returned holds the tenant's one
\* committed row, whatever the interleaving of the calls.
C19_PortBlockCreateOnce ==
    [][ /\ \A u \in Tenants : Cardinality(RowsOf(u)') <= 1
        /\ user_set \subseteq user_set'
        /\ \A c \in Callers :
              pcall'[c].pc = "done" =>
                  {r \in user_set' : r.user_id = pcall'[c].user} =
                      {[user_id |-> pcall'[c].user,
                        port_start |-> pcall'[c].ret[1],
                        port_end |-> pcall'[c].ret[2]]} ]_vars

\* Two first calls for one tenant raced: one inserted the row and returned it,
\* the other was rejected by the UNIQUE constraint, and a later call for the
\* tenant returned the existing block from the first SELECT.
C19_Witness ==
    \E c1 \in Callers, c2 \in Callers, c3 \in Callers :
        /\ c1 # c3
        /\ pcall[c1].pc = "done" /\ pcall[c2].pc = "duplicate" /\ pcall[c3].pc = "done"
        /\ pcall[c1].user = pcall[c2].user /\ pcall[c1].user = pcall[c3].user
        /\ pcall[c1].ret = pcall[c3].ret

\* C20: every newly assigned block starts immediately after the largest end
\* assigned so far, or at the pool floor 20001 when there is none (so the
\* first two blocks start at 20001 and 20011), spans exactly the block size,
\* and lies above every block assigned before, which stays with its tenant.
C20_BlocksContiguousMonotonic ==
    [][ user_set' # user_set =>
          \E r \in user_set' :
              /\ r \notin user_set
              /\ user_set' = user_set \cup {r}
              /\ r.port_end - r.port_start + 1 = USER_PORT_BLOCK_SIZE
              /\ r.port_start = USER_PORT_POOL_START
                                   + USER_PORT_BLOCK_SIZE * Cardinality(user_set)
              /\ \A q \in user_set : /\ q.port_end + 1 <= r.port_start
                                      /\ q.user_id # r.user_id
              /\ \/ user_set = {} /\ r.port_start = USER_PORT_POOL_START
                 \/ \E q \in user_set : q.port_end + 1 = r.port_start ]_vars

\* Two tenants were allocated one after the other: the first holds the block
\* from 20001 and the second the next block from 20011.
C20_Witness ==
    \E r1 \in user_set, r2 \in user_set :
        /\ r1.user_id # r2.user_id
        /\ r1.port_start = 20001 /\ r1.port_end = 20010
        /\ r2.port_start = 20011 /\ r2.port_end = 20020
        /\ \A c \in Callers : pcall[c].pc = "idle"

\* The session's work directory names its tenant: it is the configured
\* directory of one of the tenant's agents.
HasIdentity ==
    \E a \in AgentIds : hk.work_dir = AgentWorkDir(env.host, hk.tenant, a)

\* The permission handler allowed a Bash call that came with a command.
AllowedBash ==
    /\ hk.perm_ran
    /\ hk.tool = "Bash"
    /\ hk.perm.behavior = "allow"
    /\ hk.perm_in.command # <<>>

\* The command the handler hands back is the wrapper's output for the
\* command it was given, the tenant's identity and the session's directory.
HandlerWrapped ==
    hk.perm.updatedInput.command =
        WrapBashCommand(hk.perm_in.command, ToLinuxUser(hk.tenant), hk.work_dir,
                        hk.perm_job)

FinalCommand ==
    IF hk.perm_ran THEN hk.perm.updatedInput.command
    ELSE IF hk.hook_ran THEN hk.hook.updatedInput.command
    ELSE hk.input.command

\* c is the wrapper's output for a raw command, the tenant's identity and the
\* session's work directory: it is wrapped once.
WrappedOnce(c) ==
    \E raw \in RawCommands(hk.work_dir), j \in JobIds :
        c = WrapBashCommand(raw, ToLinuxUser(hk.tenant), hk.work_dir, j)

\* C12: the already-wrapped check accepts every command the wrapper made for
\* the identity and work directory it is asked about, and a Bash call whose
\* command is already the wrapper's output leaves the hooks (PreToolUse, then
\* the permission handler) with a command that is wrapped once.
C12_WrappedDetectedNotRewrapped ==
    /\ (/\ wc.pc = "checked" /\ wc.origin = "wrap"
        /\ wc.linux_user = wc.m_user /\ wc.work_dir = wc.m_dir) => wc.result
    /\ (/\ hk.pc = "done" /\ env.fw /\ HasIdentity /\ hk.tool = "Bash"
        /\ WrappedOnce(hk.input.command)) => WrappedOnce(FinalCommand)

\* C13: a command that carries the wrapper's markers for another identity or
\* another work directory than the one asked about (written by hand, or the
\* wrapper's output for the other identity or directory) is rejected by the
\* already-wrapped check.
C13_OtherMarkersRejected ==
    (/\ wc.pc = "checked"
     /\ wc.linux_user # wc.m_user \/ wc.work_dir # wc.m_dir) => ~wc.result

\* The tenant's workspace root <base>/userid_<tenant>.
TenantRoot == WorkBaseDir(env.host) \o <<SEP, "userid_">> \o hk.tenant

\* The path a read/search call asks for: file_path for Read, path for Grep
\* and Glob, which search the working directory when they are given none.
RequestedPath ==
    IF hk.tool = "Read" THEN hk.perm_in.file_path
    ELSE IF hk.perm_in.path # <<>> THEN hk.perm_in.path
    ELSE hk.work_dir

\* Where the request resolves: the session runs with cwd = work_dir
\* (ClaudeAgentOptions), so a relative path is taken from there.
Target == AbsPath(RequestedPath, hk.work_dir)

InsideRoot == Under(Target, AbsPath(TenantRoot, hk.work_dir))

\* The permission handler decided a read/search call of a session whose work
\* directory names its tenant, with isolation enabled.
ReadCallDecided ==
    /\ hk.perm_ran /\ env.fw /\ HasIdentity
    /\ hk.tool \in PathTools

\* C14: a Read, Grep or Glob call of a session with tenant root
\* <base>/userid_X whose requested path resolves outside that root is denied,
\* with a message for the user.
C14_OutsideRootDenied ==
    (ReadCallDecided /\ ~InsideRoot) =>
        (hk.perm.behavior = "deny" /\ hk.perm.systemMessage # <<>>)

\* C15: a Read, Grep or Glob call whose requested path resolves under the
\* tenant's root, the relative subdir/file.txt of a session working inside
\* the root included, is allowed.
C15_InsideRootAllowed ==
    (ReadCallDecided /\ InsideRoot) => hk.perm.behavior = "allow"

\* C16: with isolation disabled, or on a host other than Linux, the
\* permission handler allows every call and hands its input back unchanged.
C16_DisabledOrUnsupportedPassesThrough ==
    (hk.perm_ran /\ (~env.fw \/ env.host # "linux")) =>
        (hk.perm.behavior = "allow" /\ hk.perm.updatedInput = hk.perm_in)

\* The steps of ensure_user_firewall after the identity
LaterSteps == ProvSteps \ {"identity"}

\* C17: with the firewall enabled on a supported host, a step of
\* ensure_user_firewall that fails is logged and does not abort the others:
\* a call that returns after a failed step has attempted every step after
\* the identity, and has logged something.
C17_FailedStepDoesNotAbortOthers ==
    \A c \in ProvCallers :
        (pv[c].pc = "done" /\ pv[c].failed # {}) =>
            (LaterSteps \subseteq pv[c].attempted /\ pv[c].logged # {})

\* The identity, workspace and slice state of tenant u on the host
HostOf(u) ==
    [identity |-> os_state.passwd[ToLinuxUser(u)],
     workspace |-> os_state.workspace[u],
     caps |-> os_state.caps[ToLinuxUser(u)],
     io |-> os_state.io[ToLinuxUser(u)]]

\* What one complete call of ensure_user_firewall leaves for tenant u
Provisioned(u) ==
    HostOf(u) = [identity |-> 1,
                 workspace |-> [exists |-> TRUE, owner |-> ToLinuxUser(u),
                                mode |-> "700"],
                 caps |-> TRUE,
                 io |-> os_state.rootdev]

C21_ExhaustedExactlyAboveCeiling ==
    [][ /\ \A c \in Callers :
             /\ (pcall[c].pc = "locked" /\ pcall'[c].pc # "locked") =>
                   ( pcall'[c].pc = "exhausted" <=>
                       Max2(MaxEnd + 1, USER_PORT_POOL_START)
                           + USER_PORT_BLOCK_SIZE - 1 > USER_PORT_POOL_END )
             /\ (pcall'[c].pc = "exhausted" /\ pcall[c].pc # "exhausted") =>
                   /\ pcall[c].pc = "locked"
                   /\ user_set' = user_set
                   /\ table_lock' # c
        /\ \A r \in user_set' : r.port_end <= USER_PORT_POOL_END ]_vars

\* A call has raised the pool-exhausted error on a full table while another
\* call holds a block that ends at the ceiling.
C21_Witness ==
    \E c \in Callers :
        /\ pcall[c].pc = "exhausted"
        /\ \E r \in user_set : r.port_end = USER_PORT_POOL_END
        /\ RowsOf(pcall[c].user) = {}

\* C22: the reaper loop never dies of an exception: after the sweep body
\* raised, the loop backs off and gets back to its interval sleep, from which
\* a further iteration starts; a sweep suspended in a close goes on; only the
\* cancellation of the task ends the loop.
C22_ReaperLoopNeverDies ==
    /\ [](reaper.pc = "backoff" => <>(reaper.pc \in {"retry", "stopped"}))
    /\ [](reaper.pc = "retry" => <>(reaper.pc # "retry"))
    /\ [](reaper.pc = "sweep" => <>(reaper.pc # "sweep"))
    /\ [](reaper.pc \in {"sleep", "retry", "backoff", "sweep", "stopped"})

\* The loop is back in its interval sleep after an iteration that raised,
\* with a session registered for the next sweep.
C22_Witness ==
    /\ reaper.pc = "retry"
    /\ \E a \in Agents : clients[a] # 0 /\ now - agent_last_active[a] > IDLE_TIMEOUT_SECONDS

\* C23: when the retry after a fatal transport error fails too, one error
\* message is saved for the user and the session is reset: the handle the
\* retry ran on, its CLI process gone, is no longer the registered handle of
\* the agent when the request ends.
C23_FailedRetryResetsSession ==
    \A r \in Reqs :
        (req[r].pc = "done" /\ req[r].retry /\ req[r].outcome = "error") =>
            /\ req[r].errs = 1
            /\ handles[req[r].client].proc = "dead" =>
                  clients[AgentOf(r)] # req[r].client

\* The step ends a call of ensure_client_connected by request r that found
\* the session registered and flagged connected.
EnsureConnectedReturns(r) ==
    /\ req[r].pc = "lockwait"
    /\ req'[r].pc = "exch"
    /\ clients[AgentOf(r)] # 0

\* The step ends the connect() of a call of ensure_client_connected by r
ConnectEnds(r) == req[r].pc = "connecting" /\ req'[r].pc = "exch"

\* ... and connect() returned without raising: the handle got its process
ConnectSucceeded(r) == handles'[req[r].conn] # handles[req[r].conn]

\* The connected flag of an agent turns true only in a step that ends a
\* connect() which did not raise.
FlagOnlyAfterHandshake ==
    \A a \in Agents :
        (client_connected'[a] = "true" /\ client_connected[a] # "true") =>
            \E r \in Reqs : AgentOf(r) = a /\ ConnectEnds(r) /\ ConnectSucceeded(r)

\* C24 as stated: every call of ensure_client_connected for a registered
\* session sets last_active to the current time, and the connected flag
\* turns true only after a connect that succeeded.
C24_EveryCallBumps ==
    [][ /\ \A r \in Reqs :
             (EnsureConnectedReturns(r) \/ ConnectEnds(r)) =>
                 agent_last_active'[AgentOf(r)] = now
        /\ FlagOnlyAfterHandshake ]_vars

\* C24 amended: a call that finds the session connected, or whose connect
\* succeeds, sets last_active to the current time (and the flag to true); a
\* call whose connect raises leaves the flag and last_active as they were.
C24_SuccessfulCallBumps ==
    [][ /\ \A r \in Reqs :
             /\ EnsureConnectedReturns(r) =>
                   agent_last_active'[AgentOf(r)] = now
             /\ ConnectEnds(r) =>
                   IF ConnectSucceeded(r)
                   THEN /\ agent_last_active'[AgentOf(r)] = now
                        /\ client_connected'[AgentOf(r)] = "true"
                   ELSE /\ agent_last_active' = agent_last_active
                        /\ client_connected' = client_connected
        /\ FlagOnlyAfterHandshake ]_vars

\* A call has connected a session that was registered earlier: the flag is
\* true and last_active is the time of the call, later than the registration.
C24_Witness ==
    \E r \in Reqs :
        /\ req[r].pc = "exch"
        /\ clients[AgentOf(r)] = req[r].client
        /\ client_connected[AgentOf(r)] = "true"
        /\ agent_last_active[AgentOf(r)] = now
        /\ now > 0

\* C25: a handle that has just been registered is flagged disconnected, and
\* query() is sent only for a session that is registered and flagged
\* connected at that moment.
C25_ExchangeOnlyWhenConnected ==
    [][ /\ \A a \in Agents :
             (clients'[a] # 0 /\ clients'[a] # clients[a]) =>
                 client_connected'[a] = "false"
        /\ \A r \in Reqs :
             (req'[r].pc = "exch" /\ req[r].pc # "exch") =>
                 /\ clients'[AgentOf(r)] # 0
                 /\ client_connected'[AgentOf(r)] = "true" ]_vars

\* The agents a pass is to close: those of the owner who logs out, or for
\* close_all_clients the ids registered when it started.
PassAgents(lo) ==
    IF lo.kind = "logout" THEN lo.owned ELSE lo.ids

\* The step is taken by the pass: it starts, or its close goes on or returns.
PassStep ==
    \/ logout' # logout
    \/ closing["user"].cont = "pass" /\ closing'["user"] # closing["user"]

C27_RegistryMapsAgree ==
    \A a \in Agents :
        clients[a] = 0 =>
            /\ client_options[a] = 0
            /\ client_connected[a] = "absent"
            /\ agent_last_active[a] = -1

\* C28: a handle that is removed from the registry or replaced in it has gone
\* through disconnect, close and the process kill, and a close_agent_client
\* call removes only the handle it started on.
C28_NoHandleLeavesUntorn ==
    [][ /\ \A a \in Agents :
             (clients[a] # 0 /\ clients'[a] # clients[a]) =>
                 TeardownSteps \subseteq handles'[clients[a]].torn
        /\ \A t \in Tasks :
             ( /\ closing[t].st # "none"
               /\ closing'[t] # closing[t]
               /\ clients[closing[t].a] # 0
               /\ clients'[closing[t].a] # clients[closing[t].a] ) =>
                 clients[closing[t].a] = closing[t].h ]_vars


\* The messages of a list of combined messages, in the order handed.
RECURSIVE Flatten(_)
Flatten(batches) ==
    IF batches = <<>> THEN <<>> ELSE Head(batches) \o Flatten(Tail(batches))

\* Nothing is lost, repeated or reordered: the messages handed so far
\* followed by the ones still waiting are the messages sent, in the order of
\* their appends.
HandedOnceInOrder(key) ==
    Flatten(handed[key]) \o pending_message_queues[key] =
        [i \in 1..next_msg[key] |-> i]

\* A waiting message has a processor: the task of its key is created or
\* suspended in _process_ai_response, and the flag says so.
NotStranded(key) ==
    pending_message_queues[key] # <<>> =>
        queue_processing_flags[key] /\ pq[key].pc \in {"created", "await"}

\* C29: every message enqueued for a key is handed to _process_ai_response
\* exactly once, in arrival order, possibly combined with its neighbours, and
\* none waits in the queue with no processor running.
C29_QueueHandsEveryMessageOnce ==
    \A key \in QueueKeys : HandedOnceInOrder(key) /\ NotStranded(key)


\* A step of the program revives task t: it writes running or active into
\* the row, puts a job for it into the job store, or starts a dispatch.
Revives(t) ==
    \/ task_custom_mcp'[t].status \in {"running", "active"}
    \/ t \in scheduler_jobs' /\ t \notin scheduler_jobs
    \/ execs'[t].pc = "dispatch" /\ execs[t].pc # "dispatch"

\* C30: once cancel_task_tool has removed the job of a task and marked its
\* row cancelled, no later step sets the status back to running or active,
\* dispatches the task or schedules it again.
C30_CancelledStaysCancelled ==
    [][\A t \in TaskIds :
           (task_custom_mcp[t].status = "cancelled" /\ t \notin scheduler_jobs)
               => ~Revives(t)]_vars
====
